---------------------------- MODULE Spec2Model ----------------------------
(***************************************************************************)
(* Cycle-accurate model of the daqnet IP stack (gateware/daqnet/ethernet/  *)
(* ip.py): the IPStack sequencer, the _StackLayer state machines built     *)
(* from the skip/copy/extract/check/write/switch primitives, the           *)
(* _InternetChecksum accumulators and the packet memories.                 *)
(*                                                                         *)
(* One step of the model is one rising edge of the sync clock.  Every      *)
(* unprimed variable is the value a register (or an input pin) holds       *)
(* during the current clock; combinational signals are operators over      *)
(* them; the primed variables are what the registers hold in the next      *)
(* clock.  Values wider than 31 bits (MAC and IPv4 addresses) are kept as  *)
(* tuples of bytes, most significant byte first.                           *)
(***************************************************************************)
EXTENDS Integers, Sequences, FiniteSets, TLC

----------------------------------------------------------------------------
(* Program constants                                                       *)

MemSize == 64
RmiiMemSize == 128
UserMemSize == 32
LenMod == 2048
CtrMod == 2048
WordMod == 65536
ByteMod == 256

(* mac_addr / ip4_addr / user_udp_port of the unit tests *)
mac_addr == <<1, 35, 69, 103, 137, 171>>
ip4_addr == <<10, 0, 0, 5>>
user_udp_port == 1735
(* AsyncFIFO(width=22, depth=2) between the stack and RMIITx *)
TxFifoDepth == 2

(* Bounds of the model *)
MaxFrames == 2
MaxUserTx == 2
MaxBurst == 4
MaxOps == 2
MaxResets == 1
ClkDiv == 4
MaxRounds == 2
MaxMore == 3
MaxCrcLen == 2
MaxRest == 2
MaxSumLen == 4
MaxRxFrames == 2
MaxTxFrames == 2
CycCap == 2200

Byte == 0..255

----------------------------------------------------------------------------
(* Helpers                                                                 *)

(* (val >> 8*(n-i-1)) & 0xFF for i = 0..n-1, as a tuple *)
BytesBE(val, n) == [i \in 1..n |-> (val \div (256 ^ (n - i))) % 256]

Zeros(n) == [i \in 1..n |-> 0]

(* layer FSM state names; the numbered states are 0, 1, 2, ... *)
IDLE == -1
DONE_NO_TX == -2
DONE_TX == -3


----------------------------------------------------------------------------
(* _StackLayer: the state-generating primitives.  Each returns the list of *)
(* FSM states it generates, one record per state:                          *)
(*   op  - the primitive that generated the state                          *)
(*   dst - offset written to in the outgoing packet (dst + i)              *)
(*   src - "const" when the value byte is a constant (val is the byte),    *)
(*         otherwise the name of a register whose byte number val is used  *)
(*   reg - index of the register byte an extract stores into               *)

Op(op, dst, src, val, reg) ==
    [op |-> op, dst |-> dst, src |-> src, val |-> val, reg |-> reg]

skip(n) == [i \in 1..n |-> Op("skip", 0, "const", 0, 0)]

copy(dst, n) == [i \in 1..n |-> Op("copy", dst + i - 1, "const", 0, 0)]

copy_sig_n(dst) == << Op("copy_sig_n", dst, "const", 0, 0) >>

(* bigendian: stream byte i is stored in bits 8*(n-i-1)..8*(n-i), which is *)
(* byte reg+i of the register kept most significant byte first             *)
extract(reg, n) == [i \in 1..n |-> Op("extract", 0, "const", 0, reg + i - 1)]

copy_extract(reg, dst, n) ==
    [i \in 1..n |-> Op("copy_extract", dst + i - 1, "const", 0, reg + i - 1)]

extract_to_mem(dst) == << Op("extract_to_mem", dst, "const", 0, 0) >>

ValByte(src, val, i) == IF src = "const" THEN val[i] ELSE i

(* check with the Else branch (m.next = "DONE_NO_TX") left out *)
checkNoAbort(src, val, n) == [i \in 1..n |-> Op("skip", 0, "const", 0, 0)]

check(src, val, n) == [i \in 1..n |-> Op("check", 0, src, ValByte(src, val, i), 0)]

copy_check(src, val, dst, n) ==
    [i \in 1..n |-> Op("copy_check", dst + i - 1, src, ValByte(src, val, i), 0)]

write(src, val, dst, n) ==
    [i \in 1..n |-> Op("write", dst + i - 1, src, ValByte(src, val, i), 0)]

write_from_mem(dst) == << Op("write_from_mem", dst, "const", 0, 0) >>

switch == << Op("switch", 0, "const", 0, 0) >>

custom_state == << Op("custom", 0, "const", 0, 0) >>

(* Registers of one layer after reset *)
LayerInit(nreg) ==
    [st |-> IDLE, tx_en |-> 0, tx_addr |-> 0, tx_data |-> 0, tx_len |-> 0,
     send_at_end |-> 0, child_tx_len |-> 0, rx_data |-> 0, ctr |-> 0,
     reg |-> Zeros(nreg)]

(* combinational outputs done and send (end_fsm) *)
done(L) == L.st \in {DONE_NO_TX, DONE_TX}
send(L) == L.st = DONE_TX

(* value byte of a check / copy_check / write state *)
OpVal(o, d) == IF o.src = "const" THEN o.val ELSE d.dyn[o.src][o.val]

(* start_fsm: state IDLE *)
start_fsm(L, run) ==
    [L EXCEPT !.send_at_end = 0, !.tx_en = 0, !.child_tx_len = 0,
              !.st = IF run THEN 0 ELSE IDLE]

(* end_fsm: DONE_NO_TX, DONE_TX and the final numbered state *)
end_fsm(L, sendAlways) ==
    IF done(L) THEN [L EXCEPT !.st = IDLE]
    ELSE [L EXCEPT !.tx_en = 0,
                   !.st = IF sendAlways \/ L.send_at_end = 1
                          THEN DONE_TX ELSE DONE_NO_TX]

(* a switch state that goes on to reply whatever its child decided *)
switch_stateAlwaysSends(L, d) ==
    IF ~d.matched THEN [L EXCEPT !.st = DONE_NO_TX]
    ELSE LET C == d.child
             A == [L EXCEPT !.tx_en = C.tx_en,
                            !.tx_addr = (C.tx_addr + L.st) % MemSize,
                            !.tx_data = C.tx_data]
         IN IF done(C)
            THEN [A EXCEPT !.st = L.st + 1, !.send_at_end = 1,
                           !.child_tx_len = C.tx_len]
            ELSE A

(* switch: the state that delegates to the child selected by the key.      *)
(* d.matched says whether the key has a case, d.child is that submodule.   *)
switch_state(L, d) ==
    IF ~d.matched THEN [L EXCEPT !.st = DONE_NO_TX]
    ELSE LET C == d.child
             A == [L EXCEPT !.tx_en = C.tx_en,
                            !.tx_addr = (C.tx_addr + L.st) % MemSize,
                            !.tx_data = C.tx_data]
         IN IF done(C)
            THEN IF send(C)
                 THEN [A EXCEPT !.st = L.st + 1, !.send_at_end = 1,
                                !.child_tx_len = C.tx_len]
                 ELSE [A EXCEPT !.st = DONE_NO_TX]
            ELSE A

(* One numbered state of a layer, by the primitive that generated it *)
OpStep(L, o, d) ==
    LET nxt == L.st + 1
        wr(a, b) == [L EXCEPT !.tx_en = 1, !.tx_addr = a % MemSize, !.tx_data = b]
    IN CASE o.op = "skip" -> [L EXCEPT !.tx_en = 0, !.st = nxt]
         [] o.op = "copy" -> [wr(o.dst, L.rx_data) EXCEPT !.st = nxt]
         [] o.op = "copy_sig_n" ->
              LET A == wr(o.dst + L.ctr, L.rx_data)
              IN IF L.ctr = (d.n - 1 + 2 * d.ctrmod) % (2 * d.ctrmod)
                 THEN [A EXCEPT !.st = nxt, !.ctr = 0]
                 ELSE [A EXCEPT !.ctr = (L.ctr + 1) % d.ctrmod]
         [] o.op = "extract" ->
              [L EXCEPT !.reg[o.reg] = L.rx_data, !.tx_en = 0, !.st = nxt]
         [] o.op = "copy_extract" ->
              [wr(o.dst, L.rx_data) EXCEPT !.reg[o.reg] = L.rx_data, !.st = nxt]
         [] o.op = "extract_to_mem" ->
              IF L.ctr = (d.n - 1 + 2 * d.ctrmod) % (2 * d.ctrmod)
              THEN [L EXCEPT !.st = nxt, !.ctr = 0]
              ELSE [L EXCEPT !.ctr = (L.ctr + 1) % d.ctrmod]
         [] o.op = "check" ->
              [L EXCEPT !.tx_en = 0,
                        !.st = IF L.rx_data = OpVal(o, d) THEN nxt ELSE DONE_NO_TX]
         [] o.op = "copy_check" ->
              [wr(o.dst, L.rx_data) EXCEPT
                        !.st = IF L.rx_data = OpVal(o, d) THEN nxt ELSE DONE_NO_TX]
         [] o.op = "write" -> [wr(o.dst, OpVal(o, d)) EXCEPT !.st = nxt]
         [] o.op = "write_from_mem" ->
              LET A == wr(IF L.ctr = 0 THEN o.dst ELSE o.dst + L.ctr - 1, d.rp_data)
              IN IF L.ctr = d.n
                 THEN [A EXCEPT !.st = nxt, !.ctr = 0]
                 ELSE [A EXCEPT !.ctr = (L.ctr + 1) % d.ctrmod]
         [] o.op = "switch" -> switch_state(L, d)
         [] o.op = "custom" -> [L EXCEPT !.tx_en = 0, !.st = nxt]

(* One clock of a layer whose FSM states are P.  d carries what the layer  *)
(* reads from outside its own registers in this clock:                     *)
(*   tl, sendAlways - the tx_len and send arguments of end_fsm             *)
(*   dyn      - the registers used as val of check / write                 *)
(*   matched, child - for switch                                           *)
(*   n, ctrmod, rp_data - for the counted primitives                       *)
(* tx_len is assigned outside the FSM states, in every clock.              *)
LayerStep(L, P, run, d) ==
    LET S == IF L.st = IDLE THEN start_fsm(L, run)
             ELSE IF done(L) \/ L.st = Len(P) THEN end_fsm(L, d.sendAlways)
             ELSE OpStep(L, P[L.st + 1], d)
    IN [S EXCEPT !.tx_len = (d.tl + L.child_tx_len) % LenMod]


----------------------------------------------------------------------------
(* _InternetChecksum: state is the 17-bit accumulator                      *)

checksum(state) == (WordMod - 1) - (state % WordMod)

(* the accumulator without the end-around carry (state[-1] not added) *)
InternetChecksumNoCarry(state, data, lowbyte, en, reset) ==
    LET data_shift == IF lowbyte = 1 THEN data ELSE data * ByteMod
    IN IF reset THEN 0
       ELSE IF en THEN (state % WordMod) + data_shift
       ELSE state

(* the accumulator with en taking priority over reset *)
InternetChecksumEnFirst(state, data, lowbyte, en, reset) ==
    LET data_shift == IF lowbyte = 1 THEN data ELSE data * ByteMod
    IN IF en THEN (state % WordMod) + data_shift + (state \div WordMod)
       ELSE IF reset THEN 0
       ELSE state

InternetChecksum(state, data, lowbyte, en, reset) ==
    LET data_shift == IF lowbyte = 1 THEN data ELSE data * ByteMod
    IN IF reset THEN 0
       ELSE IF en THEN (state % WordMod) + data_shift + (state \div WordMod)
       ELSE state

----------------------------------------------------------------------------
(* The layers: the FSM states each elaborate() generates.  Register bytes: *)
(*   eth  reg 1..6 src_mac, 7..8 ethertype                                 *)
(*   ipv4 reg 1..2 total_length, 3 protocol, 4..7 source_ip                *)
(*   udp  reg 1..2 src_port                                                *)

EthernetLayer ==
    skip(6) \o copy_extract(1, 0, 6) \o copy_extract(7, 12, 2) \o switch
    \o write("const", mac_addr, 6, 6)

(* _ARPLayer writing OPER 1 (request) into the reply *)
ARPLayerOperRequest ==
    copy(0, 2) \o copy_check("const", BytesBE(2048, 2), 2, 2) \o copy(4, 2)
    \o check("const", BytesBE(1, 2), 2) \o copy(18, 6) \o copy(24, 4)
    \o skip(6) \o copy_check("const", ip4_addr, 14, 4)
    \o write("const", BytesBE(1, 2), 6, 2) \o write("const", mac_addr, 8, 6)

ARPLayer ==
    copy(0, 2) \o copy_check("const", BytesBE(2048, 2), 2, 2) \o copy(4, 2)
    \o check("const", BytesBE(1, 2), 2) \o copy(18, 6) \o copy(24, 4)
    \o skip(6) \o copy_check("const", ip4_addr, 14, 4)
    \o write("const", BytesBE(2, 2), 6, 2) \o write("const", mac_addr, 8, 6)

IPv4Layer ==
    copy_check("const", <<69>>, 0, 1) \o skip(1) \o extract(1, 2) \o skip(5)
    \o copy_extract(3, 9, 1) \o skip(2) \o copy_extract(4, 16, 4)
    \o copy_check("const", ip4_addr, 12, 4) \o switch
    \o write("const", <<0>>, 1, 1) \o write("total_length", <<>>, 2, 2)
    \o write("const", <<64>>, 8, 1) \o write("const", Zeros(4), 4, 4)
    \o write("checksum", <<>>, 10, 2)

(* _ICMPv4Layer leaving the type of the request (8) in the reply *)
ICMPv4LayerTypeKept ==
    check("const", <<8>>, 1) \o check("const", <<0>>, 1) \o skip(2)
    \o copy(4, 2) \o copy(6, 2) \o copy_sig_n(8)
    \o write("const", <<8>>, 0, 1) \o write("const", <<0>>, 1, 1)
    \o write("checksum", <<>>, 2, 2)

ICMPv4Layer ==
    check("const", <<8>>, 1) \o check("const", <<0>>, 1) \o skip(2)
    \o copy(4, 2) \o copy(6, 2) \o copy_sig_n(8)
    \o write("const", <<0>>, 0, 1) \o write("const", <<0>>, 1, 1)
    \o write("checksum", <<>>, 2, 2)

UDPLayer ==
    extract(1, 2) \o check("const", BytesBE(user_udp_port, 2), 2)
    \o check("udp_len_8", <<>>, 2) \o skip(2) \o extract_to_mem(0)
    \o custom_state

(* _UDPTxLayer sending to its own port instead of the cached one *)
UDPTxLayerOwnPort ==
    write("dst_mac", <<>>, 0, 6) \o write("const", mac_addr, 6, 6)
    \o write("const", BytesBE(2048, 2), 12, 2) \o write("const", <<69>>, 14, 1)
    \o write("const", <<0>>, 15, 1) \o write("udp_len_28", <<>>, 16, 2)
    \o write("const", Zeros(2), 18, 2) \o write("const", Zeros(2), 20, 2)
    \o write("const", <<64>>, 22, 1) \o write("const", <<17>>, 23, 1)
    \o write("const", ip4_addr, 26, 4) \o write("dst_ip4", <<>>, 30, 4)
    \o write("checksum", <<>>, 24, 2)
    \o write("const", BytesBE(user_udp_port, 2), 34, 2)
    \o write("const", BytesBE(user_udp_port, 2), 36, 2)
    \o write("udp_len_8", <<>>, 38, 2)
    \o write("const", Zeros(2), 40, 2) \o write_from_mem(42)

UDPTxLayer ==
    write("dst_mac", <<>>, 0, 6) \o write("const", mac_addr, 6, 6)
    \o write("const", BytesBE(2048, 2), 12, 2) \o write("const", <<69>>, 14, 1)
    \o write("const", <<0>>, 15, 1) \o write("udp_len_28", <<>>, 16, 2)
    \o write("const", Zeros(2), 18, 2) \o write("const", Zeros(2), 20, 2)
    \o write("const", <<64>>, 22, 1) \o write("const", <<17>>, 23, 1)
    \o write("const", ip4_addr, 26, 4) \o write("dst_ip4", <<>>, 30, 4)
    \o write("checksum", <<>>, 24, 2)
    \o write("const", BytesBE(user_udp_port, 2), 34, 2)
    \o write("dst_udp_port", <<>>, 36, 2) \o write("udp_len_8", <<>>, 38, 2)
    \o write("const", Zeros(2), 40, 2) \o write_from_mem(42)

(* number of the state a primitive generated (self._fsm_ctr at that point) *)
StateOf(P, op) == CHOOSE i \in 0..(Len(P) - 1) : P[i + 1].op = op

EthSwitch == StateOf(EthernetLayer, "switch")
IPv4Switch == StateOf(IPv4Layer, "switch")
UDPData == StateOf(UDPLayer, "extract_to_mem")
UDPCustom == StateOf(UDPLayer, "custom")

(* fsm.ongoing(x) for x in range(15, 33) in _UDPTxLayer *)
UDPTxChecksumStates == 15..32

(* Const(n).nbits and the modulus of a counter of that width *)
RECURSIVE bits_for(_)
bits_for(n) == IF n < 2 THEN 1 ELSE 1 + bits_for(n \div 2)

Pow2(b) == 2 ^ b


----------------------------------------------------------------------------
(* Frames the link layer hands over (destination already matched, FCS not  *)
(* looked at by the stack).                                                *)

Broadcast == <<255, 255, 255, 255, 255, 255>>
HostA == [mac |-> <<0, 1, 2, 3, 4, 5>>, ip |-> <<10, 0, 0, 1>>, port |-> 10000]
HostB == [mac |-> <<2, 255, 255, 0, 128, 254>>, ip |-> <<192, 168, 255, 200>>,
          port |-> 65535]

EthFrame(dst, src, etype, body) == dst \o src \o BytesBE(etype, 2) \o body

ArpBody(htype, ptype, hlen, plen, oper, sha, spa, tha, tpa) ==
    BytesBE(htype, 2) \o BytesBE(ptype, 2) \o <<hlen, plen>> \o BytesBE(oper, 2)
    \o sha \o spa \o tha \o tpa

Ip4Header(ver_ihl, total, frag, proto, src, dst) ==
    <<ver_ihl, 0>> \o BytesBE(total, 2) \o <<0, 0>> \o BytesBE(frag, 2)
    \o <<64, proto, 1, 12>> \o src \o dst

IcmpBody(type, code, id, seq, payload) ==
    <<type, code, 2, 62>> \o BytesBE(id, 2) \o BytesBE(seq, 2) \o payload

UdpBody(sport, dport, len, payload) ==
    BytesBE(sport, 2) \o BytesBE(dport, 2) \o BytesBE(len, 2) \o <<0, 0>> \o payload

(* the ARP request and the echo request of test_rx_arp / test_rx_icmp *)
ArpReq(h, htype, hlen, plen, sha, tha) ==
    EthFrame(Broadcast, h.mac, 2054,
             ArpBody(htype, 2048, hlen, plen, 1, sha, h.ip, tha, ip4_addr))

Ping(h, total, id, seq, payload) ==
    EthFrame(mac_addr, h.mac, 2048,
             Ip4Header(69, total, 0, 1, h.ip, ip4_addr)
             \o IcmpBody(8, 0, id, seq, payload))

Udp(h, dport, len, payload) ==
    EthFrame(mac_addr, h.mac, 2048,
             Ip4Header(69, 28 + Len(payload), 0, 17, h.ip, ip4_addr)
             \o UdpBody(h.port, dport, len, payload))

TestPayload(n) == [i \in 1..n |-> 47 + i]
AltPayload(n) == [i \in 1..n |-> 256 - i]

ArpFrames ==
    { ArpReq(HostA, 1, 6, 4, HostA.mac, Zeros(6)),
      ArpReq(HostB, 255, 8, 2, HostA.mac, Broadcast),
      EthFrame(Broadcast, HostA.mac, 2054,
               ArpBody(1, 2054, 6, 4, 1, HostA.mac, HostA.ip, Zeros(6), ip4_addr)),
      EthFrame(Broadcast, HostA.mac, 2054,
               ArpBody(1, 2048, 6, 4, 2, HostA.mac, HostA.ip, Zeros(6), ip4_addr)),
      EthFrame(Broadcast, HostA.mac, 2054,
               ArpBody(1, 2048, 6, 4, 1, HostA.mac, HostA.ip, Zeros(6), <<10, 0, 0, 6>>)) }

IcmpFrames ==
    { Ping(HostA, 44, 4660, 43981, [i \in 1..16 |-> i - 1]),
      Ping(HostB, 29, 65535, 65535, <<255>>),
      Ping(HostA, 30, 1, 2, <<171, 205>>),
      Ping(HostB, 2077, 7, 8, <<90>>),
      EthFrame(mac_addr, HostA.mac, 2048,
               Ip4Header(69, 30, 0, 1, HostA.ip, ip4_addr)
               \o IcmpBody(0, 0, 1, 2, <<171, 205>>)),
      EthFrame(mac_addr, HostA.mac, 2048,
               Ip4Header(69, 30, 0, 1, HostA.ip, ip4_addr)
               \o IcmpBody(8, 1, 1, 2, <<171, 205>>)) }

(* frames the stack drops above the ICMP and UDP layers, and two it answers *)
MixedFrames ==
    { EthFrame(mac_addr, HostA.mac, 2048,
               Ip4Header(69, 40, 0, 6, HostA.ip, ip4_addr) \o Zeros(20)),
      EthFrame(Broadcast, HostA.mac, 2048,
               Ip4Header(69, 30, 0, 1, HostA.ip, <<10, 0, 0, 255>>)
               \o IcmpBody(8, 0, 1, 2, <<171, 205>>)),
      EthFrame(mac_addr, HostA.mac, 2048,
               Ip4Header(70, 34, 0, 1, HostA.ip, ip4_addr)
               \o IcmpBody(8, 0, 1, 2, <<171, 205>>)),
      EthFrame(Broadcast, HostA.mac, 34525, Zeros(40)),
      Ping(HostA, 30, 1, 2, <<171, 205>>),
      ArpReq(HostA, 1, 6, 4, HostA.mac, Zeros(6)) }

(* echo requests whose total-length field leaves no payload, or less *)
HostileFrames ==
    { Ping(HostA, 28, 1, 2, <<>>),
      Ping(HostA, 27, 1, 2, <<>>),
      Ping(HostB, 0, 1, 2, <<>>),
      Ping(HostA, 29, 1, 2, <<171>>) }

(* datagrams to the own address with the More-Fragments flag set or a      *)
(* fragment offset: an echo request and a datagram for the user port       *)
FragFrames ==
    { EthFrame(mac_addr, HostA.mac, 2048,
               Ip4Header(69, 30, 8192, 1, HostA.ip, ip4_addr)
               \o IcmpBody(8, 0, 1, 2, <<171, 205>>)),
      EthFrame(mac_addr, HostB.mac, 2048,
               Ip4Header(69, 44, 185, 17, HostB.ip, ip4_addr)
               \o UdpBody(HostB.port, user_udp_port, 24, TestPayload(16))),
      EthFrame(mac_addr, HostA.mac, 2048,
               Ip4Header(69, 30, 8192 + 3, 6, HostA.ip, ip4_addr) \o Zeros(10)) }

(* The packet buffer as the receiver fills it, FCS included: an ARP        *)
(* request for the own address padded to the minimum frame size (64 bytes  *)
(* with its FCS), and a runt of 36 bytes: the Ethernet header, the ARP     *)
(* fields up to SPA, and the FCS.                                          *)
PaddedArp == ArpReq(HostA, 1, 6, 4, HostA.mac, Zeros(6)) \o Zeros(18) \o <<20, 74, 255, 199>>
RuntArp ==
    SubSeq(ArpReq(HostB, 1, 6, 4, HostB.mac, Zeros(6)), 1, 32) \o <<174, 3, 102, 12>>
RuntFrames == { PaddedArp, RuntArp }

(* an ARP request that is answered and one for another address *)
SeqFrames ==
    { ArpReq(HostA, 1, 6, 4, HostA.mac, Zeros(6)),
      EthFrame(Broadcast, HostB.mac, 2054,
               ArpBody(1, 2048, 6, 4, 1, HostB.mac, HostB.ip, Zeros(6), <<10, 0, 0, 6>>)) }

UdpFrames(L) ==
    { Udp(HostA, user_udp_port, L + 8, TestPayload(L)),
      Udp(HostB, user_udp_port, L + 8, AltPayload(L)),
      Udp(HostA, user_udp_port + 1, L + 8, TestPayload(L)),
      Udp(HostA, user_udp_port, L + 9, TestPayload(L)) }

(* The environments explored: a family of frames, the configured           *)
(* user_udp_len, and whether the application ever raises user_tx.          *)
Scenarios ==
    { [fam |-> "arp", len |-> 16, app |-> FALSE],
      [fam |-> "icmp", len |-> 16, app |-> FALSE],
      [fam |-> "mixed", len |-> 16, app |-> FALSE],
      [fam |-> "udp", len |-> 16, app |-> TRUE],
      [fam |-> "udp", len |-> 1, app |-> TRUE] }

Frames(sc) ==
    CASE sc.fam = "arp" -> ArpFrames
      [] sc.fam = "icmp" -> IcmpFrames
      [] sc.fam = "mixed" -> MixedFrames
      [] sc.fam = "udp" -> UdpFrames(sc.len)
      [] sc.fam = "hostile" -> HostileFrames
      [] sc.fam = "frag" -> FragFrames
      [] sc.fam = "runt" -> RuntFrames
      [] sc.fam = "seq" -> SeqFrames
      [] sc.fam = "burst" -> {}

(* contents of the user transmit memory (test_udp_tx: udp_payload) *)
UserTxMem == [a \in 0..(UserMemSize - 1) |-> 48 + a]


----------------------------------------------------------------------------
(* State: the registers of IPStack and its submodules, the memories, the   *)
(* input pins, and a record of what was observed on the outputs.           *)

VARIABLES
    sc,            \* the environment explored (never changes)
    fsm,           \* IPStack FSM: "IDLE", "PROCESS_RX", "SEND_USER"
    rx_addr, rx_ack, tx_offset,
    eth_run, udp_tx_run,        \* eth.run and udp_tx.run, driven by IPStack
    rx_port_data,               \* rx_port.data (synchronous read port)
    eth, arp, ipv4, icmpv4, udp, udp_tx,
    ipv4_ck, icmpv4_ck, udp_tx_ck,   \* the three _InternetChecksum states
    payload_n,                  \* _ICMPv4Layer payload_n
    user_rx, user_last,         \* user_rx, user_last_mac / _ip4 / _port
    w_port,                     \* user_w_port addr, data, en (registers)
    r_port_data,                \* user_r_port.data (synchronous read port)
    rx_mem, tx_mem, user_rx_mem,
    user_tx, rx_valid, rx_offset,    \* inputs in the current clock
    env,           \* link layer and application: frames handed over so far,
                   \* user transmissions taken, next write address, frame on offer
    obs,           \* observation of the pass in progress (or the last one)
    matcher,       \* a MACAddressMatch with its inputs, and the bytes fed to it
    crc32,         \* a CRC32 with its inputs, and the bytes fed to it
    cksum,         \* an _InternetChecksum with its inputs, and the bytes fed
    rmii_rx,       \* an RMIIRx with its submodules, pins and memory
    rmii_tx,       \* an RMIITx with its submodules, pins and memory
    mdio,          \* an MDIO with its inputs, and the bits seen on its pins
    phy            \* a PHYManager with its MDIO, a PHY and the reset input

(* the units of the link layer, each run on its own bench *)
units == << matcher, crc32, cksum, rmii_rx, rmii_tx, mdio, phy >>

vars == << sc, fsm, rx_addr, rx_ack, tx_offset, eth_run, udp_tx_run,
           rx_port_data, eth, arp, ipv4, icmpv4, udp, udp_tx,
           ipv4_ck, icmpv4_ck, udp_tx_ck, payload_n, user_rx, user_last,
           w_port, r_port_data, rx_mem, tx_mem, user_rx_mem,
           user_tx, rx_valid, rx_offset, env, obs,
           matcher, crc32, cksum, rmii_rx, rmii_tx, mdio, phy >>

(* the variables of the IP stack and of its bench *)
stack == << sc, fsm, rx_addr, rx_ack, tx_offset, eth_run, udp_tx_run,
            rx_port_data, eth, arp, ipv4, icmpv4, udp, udp_tx,
            ipv4_ck, icmpv4_ck, udp_tx_ck, payload_n, user_rx, user_last,
            w_port, r_port_data, rx_mem, tx_mem, user_rx_mem,
            user_tx, rx_valid, rx_offset, env, obs >>

user_udp_len == sc.len

(* registers read by other modules *)
src_mac == SubSeq(eth.reg, 1, 6)
ethertype == SubSeq(eth.reg, 7, 8)
total_length == ipv4.reg[1] * ByteMod + ipv4.reg[2]
protocol == ipv4.reg[3]
source_ip == SubSeq(ipv4.reg, 4, 7)
src_port == udp.reg

(* combinational signals of the current clock *)
user_ready == fsm = "IDLE"

arp_run == eth.st = EthSwitch /\ ethertype = BytesBE(2054, 2) /\ ~done(arp)
ipv4_run == eth.st = EthSwitch /\ ethertype = BytesBE(2048, 2) /\ ~done(ipv4)
icmpv4_run == ipv4.st = IPv4Switch /\ protocol = 1 /\ ~done(icmpv4)
udp_run == ipv4.st = IPv4Switch /\ protocol = 17 /\ ~done(udp)

tx_source == IF fsm = "PROCESS_RX" THEN eth ELSE udp_tx
tx_start == fsm # "IDLE" /\ send(tx_source)
tx_len == IF fsm = "IDLE" THEN 0 ELSE tx_source.tx_len
tx_port_en == IF fsm = "IDLE" THEN 0 ELSE tx_source.tx_en
tx_port_addr == IF fsm = "IDLE" THEN 0 ELSE (tx_source.tx_addr + tx_offset) % MemSize
tx_port_data == IF fsm = "IDLE" THEN 0 ELSE tx_source.tx_data

(* what a layer without switch, counters or register values reads *)
Plain(tl, sendAlways) ==
    [tl |-> tl, sendAlways |-> sendAlways, dyn |-> [checksum |-> <<0, 0>>],
     matched |-> FALSE, child |-> arp, n |-> 0, ctrmod |-> 1, rp_data |-> 0]

EthD ==
    [Plain(14, FALSE) EXCEPT
        !.matched = ethertype \in {BytesBE(2054, 2), BytesBE(2048, 2)},
        !.child = IF ethertype = BytesBE(2054, 2) THEN arp ELSE ipv4]

ARPD == Plain(28, TRUE)

IPv4D ==
    [Plain(20, TRUE) EXCEPT
        !.matched = protocol \in {1, 17},
        !.child = IF protocol = 1 THEN icmpv4 ELSE udp,
        !.dyn = [total_length |-> BytesBE(ipv4.child_tx_len + 20, 2),
                 checksum |-> BytesBE(checksum(ipv4_ck), 2)]]

ICMPv4D ==
    [Plain((total_length - 20) % LenMod, TRUE) EXCEPT
        !.dyn = [checksum |-> BytesBE(checksum(icmpv4_ck), 2)],
        !.n = payload_n, !.ctrmod = CtrMod]

UDPD ==
    [Plain(0, FALSE) EXCEPT
        !.dyn = [udp_len_8 |-> BytesBE(user_udp_len + 8, 2)],
        !.n = user_udp_len, !.ctrmod = Pow2(bits_for(user_udp_len))]

(* _UDPTxLayer with end_fsm(send=False) *)
UDPTxDNoSend ==
    [Plain(user_udp_len + 42, FALSE) EXCEPT
        !.dyn = [dst_mac |-> user_last.mac, dst_ip4 |-> user_last.ip4,
                 dst_udp_port |-> user_last.port,
                 checksum |-> BytesBE(checksum(udp_tx_ck), 2),
                 udp_len_28 |-> BytesBE(user_udp_len + 28, 2),
                 udp_len_8 |-> BytesBE(user_udp_len + 8, 2)],
        !.n = user_udp_len, !.ctrmod = Pow2(bits_for(user_udp_len)),
        !.rp_data = r_port_data]

UDPTxD ==
    [Plain(user_udp_len + 42, TRUE) EXCEPT
        !.dyn = [dst_mac |-> user_last.mac, dst_ip4 |-> user_last.ip4,
                 dst_udp_port |-> user_last.port,
                 checksum |-> BytesBE(checksum(udp_tx_ck), 2),
                 udp_len_28 |-> BytesBE(user_udp_len + 28, 2),
                 udp_len_8 |-> BytesBE(user_udp_len + 8, 2)],
        !.n = user_udp_len, !.ctrmod = Pow2(bits_for(user_udp_len)),
        !.rp_data = r_port_data]

(* the custom state of _UDPLayer: the endpoint cache and user_rx *)
UserLastPortKept ==
    IF udp.st = UDPCustom
    THEN [mac |-> src_mac, ip4 |-> source_ip, port |-> user_last.port]
    ELSE user_last

(* a UDP layer that saves the sender before the port and length checks *)
UserLastUnchecked ==
    IF udp.st = 2
    THEN [mac |-> src_mac, ip4 |-> source_ip, port |-> src_port]
    ELSE user_last

UserLast ==
    IF udp.st = UDPCustom
    THEN [mac |-> src_mac, ip4 |-> source_ip, port |-> src_port]
    ELSE user_last

UserRx == IF udp.st = UDPCustom THEN 1 ELSE 0

(* extract_to_mem: the registers driving user_w_port *)
WritePort ==
    [data |-> udp.rx_data,
     addr |-> (0 + udp.ctr) % UserMemSize,
     en |-> IF udp.st = UDPData
            THEN IF udp.ctr = (UDPD.n - 1 + 2 * UDPD.ctrmod) % (2 * UDPD.ctrmod)
                 THEN 0 ELSE 1
            ELSE w_port.en]

(* write port of a Memory: written at the clock edge when en is high *)
MemWrite(mem, en, addr, data) ==
    IF en = 1 THEN [mem EXCEPT ![addr] = data] ELSE mem


----------------------------------------------------------------------------
(* MACAddressMatch (mac_address_match.py).  The FSM state BYTEn is kept as *)
(* st = "BYTE" with idx = n.  mac holds the six registers mac[0..5].       *)

MatcherReset == [st |-> "RESET", idx |-> 0, mac |-> Zeros(6), mac_match |-> 0]

(* a matcher that goes on taking bytes into mac[5] in DONE *)
MACAddressMatchNoDone(m, reset, data, data_valid) ==
    LET match == IF \A i \in 1..6 : m.mac[i] = mac_addr[i] \/ m.mac[i] = 255
                 THEN 1 ELSE 0
    IN CASE m.st = "RESET" ->
              [st |-> IF reset = 0 THEN "BYTE" ELSE "RESET", idx |-> 0,
               mac |-> Zeros(6), mac_match |-> match]
         [] m.st = "BYTE" ->
              [st |-> IF reset = 1 THEN "RESET"
                      ELSE IF data_valid = 1 /\ m.idx = 5 THEN "DONE"
                      ELSE "BYTE",
               idx |-> IF reset = 1 THEN 0
                       ELSE IF data_valid = 1 THEN (m.idx + 1) % 6
                       ELSE m.idx,
               mac |-> [m.mac EXCEPT ![m.idx + 1] = data],
               mac_match |-> match]
         [] m.st = "DONE" ->
              [st |-> IF reset = 1 THEN "RESET" ELSE "DONE", idx |-> 0,
               mac |-> IF data_valid = 1 THEN [m.mac EXCEPT ![6] = data] ELSE m.mac,
               mac_match |-> match]

(* one clock edge of the matcher with the inputs of the current clock *)
MACAddressMatch(m, reset, data, data_valid) ==
    LET match == IF \A i \in 1..6 : m.mac[i] = mac_addr[i] \/ m.mac[i] = 255
                 THEN 1 ELSE 0
    IN CASE m.st = "RESET" ->
              [st |-> IF reset = 0 THEN "BYTE" ELSE "RESET", idx |-> 0,
               mac |-> Zeros(6), mac_match |-> match]
         [] m.st = "BYTE" ->
              [st |-> IF reset = 1 THEN "RESET"
                      ELSE IF data_valid = 1 /\ m.idx = 5 THEN "DONE"
                      ELSE "BYTE",
               idx |-> IF reset = 1 THEN 0
                       ELSE IF data_valid = 1 THEN (m.idx + 1) % 6
                       ELSE m.idx,
               mac |-> [m.mac EXCEPT ![m.idx + 1] = data],
               mac_match |-> match]
         [] m.st = "DONE" ->
              [st |-> IF reset = 1 THEN "RESET" ELSE "DONE", idx |-> 0,
               mac |-> m.mac, mac_match |-> match]

(* destination addresses fed by the bench (test_mac_address_match feeds    *)
(* the own address, broadcast and the own address reversed)                *)
MatchAddrs ==
    { mac_addr, Broadcast, <<171, 137, 103, 69, 35, 1>>,
      <<255, 35, 69, 103, 137, 171>>, <<1, 35, 69, 255, 255, 255>>,
      <<1, 35, 69, 103, 137, 170>>, <<0, 35, 69, 103, 137, 171>>,
      Zeros(6) }

(* the bench: reset held, then six bytes, each presented with data_valid   *)
(* for one clock and followed by one clock without, then MaxMore clocks    *)
(* with any input, then reset again.  pos counts the bytes presented,      *)
(* extra the clocks with data_valid after the six bytes.                   *)
MatcherInit ==
    [u |-> MatcherReset, reset |-> 1, data |-> 0, data_valid |-> 0,
     addr |-> Zeros(6), pos |-> 0, more |-> 0, extra |-> 0, rounds |-> 0]

----------------------------------------------------------------------------
(* CRC32 (crc.py).  A 32-bit value is a tuple of 32 bits, bit 0 first.     *)

Bits(n, w) == [i \in 1..w |-> (n \div (2 ^ (i - 1))) % 2]
Num8(b) == b[1] + 2 * b[2] + 4 * b[3] + 8 * b[4]
           + 16 * b[5] + 32 * b[6] + 64 * b[7] + 128 * b[8]
Rev(s) == [i \in 1..Len(s) |-> s[Len(s) + 1 - i]]
XorW(a, b) == [i \in 1..Len(a) |-> (a[i] + b[i]) % 2]
Shl1(r) == [i \in 1..32 |-> IF i = 1 THEN 0 ELSE r[i - 1]]
Shr(r, k) == [i \in 1..32 |-> IF i + k <= 32 THEN r[i + k] ELSE 0]
Ones32 == [i \in 1..32 |-> 1]
(* the 32-bit value of four bytes, least significant first, and back *)
BitsLE(bytes) == [i \in 1..32 |-> Bits(bytes[((i - 1) \div 8) + 1], 8)[((i - 1) % 8) + 1]]
BytesLE(r) == [k \in 1..4 |-> Num8(SubSeq(r, 8 * k - 7, 8 * k))]

poly == 79764919
PolyBits == Bits(poly, 31) \o <<0>>

RECURSIVE TableLoop(_, _)
TableLoop(r, k) ==
    IF k = 0 THEN r
    ELSE TableLoop(IF r[32] = 1 THEN XorW(Shl1(r), PolyBits) ELSE Shl1(r), k - 1)

(* the table without the final bit reversal *)
make_crc32_tableUnreflected ==
    [i \in 0..255 |->
        LET ir == Rev(Bits(i, 8))
            r  == Zeros(24) \o ir
        IN TableLoop(r, 8)]

make_crc32_table ==
    [i \in 0..255 |->
        LET ir == Rev(Bits(i, 8))
            r  == Zeros(24) \o ir
        IN Rev(TableLoop(r, 8))]

(* the residual named in the docstring of CRC32, 0xC704DD7B *)
ResidualUnreflected == BitsLE(<<123, 221, 4, 199>>)

(* crc == 0xDEBB20E3 *)
Residual == BitsLE(<<227, 32, 187, 222>>)

CRC32Reset == [st |-> "RESET", crc |-> Zeros(32), table_data |-> Zeros(32)]

crc_out(u) == XorW(u.crc, Ones32)
(* a crc_match that is always high *)
crc_matchAlways(u) == 1

crc_match(u) == IF u.crc = Residual THEN 1 ELSE 0

(* one clock edge of the CRC with the inputs of the current clock; the     *)
(* table's read port is synchronous, its address is (crc ^ data)[7:0]      *)
CRC32(u, reset, data, data_valid) ==
    LET addr == Num8(XorW(SubSeq(u.crc, 1, 8), Bits(data, 8)))
        looked == make_crc32_table[addr]
    IN CASE u.st = "RESET" ->
              [st |-> "IDLE", crc |-> Ones32, table_data |-> looked]
         [] u.st = "IDLE" ->
              [st |-> IF reset = 1 THEN "RESET"
                      ELSE IF data_valid = 1 THEN "BUSY" ELSE "IDLE",
               crc |-> u.crc, table_data |-> looked]
         [] u.st = "BUSY" ->
              [st |-> "IDLE", crc |-> XorW(u.table_data, Shr(u.crc, 8)),
               table_data |-> looked]

(* test_crc32 and test_crc32_match: the check string and the frame *)
Check9 == <<49, 50, 51, 52, 53, 54, 55, 56, 57>>
Frame98 ==
    << 255, 255, 255, 255, 255, 255, 240, 222, 241, 56, 137, 64,
       8, 0, 69, 0, 0, 84, 0, 0, 64, 0, 64, 1,
       182, 208, 192, 168, 1, 136, 192, 168, 1, 0, 8, 0,
       13, 217, 18, 30, 0, 7, 59, 62, 12, 92, 0, 0,
       0, 0, 19, 3, 15, 0, 0, 0, 0, 0, 32, 87,
       111, 114, 108, 100, 72, 101, 108, 108, 111, 32, 87, 111,
       114, 108, 100, 72, 101, 108, 108, 111, 32, 87, 111, 114,
       108, 100, 72, 101, 108, 108, 111, 32, 87, 111, 114, 108,
       100, 72 >>
Frame98FCS == <<82, 50, 31, 158>>

CrcBytes == {0, 49, 255}
RECURSIVE SeqsUpTo(_, _)
SeqsUpTo(S, n) ==
    IF n = 0 THEN { <<>> }
    ELSE LET T == SeqsUpTo(S, n - 1)
         IN T \cup { Append(t, b) : t \in { x \in T : Len(x) = n - 1 }, b \in S }
CrcMsgs == SeqsUpTo(CrcBytes, MaxCrcLen) \cup { Check9, Frame98 }

(* four bytes fed after a message whose crc_out was out *)
Trailers(out) ==
    LET fcs == BytesLE(out)
    IN { fcs, Rev(fcs), [fcs EXCEPT ![1] = (fcs[1] + 1) % 256],
         Zeros(4), <<255, 255, 255, 255>>, Frame98FCS }

(* the standard CRC-32 on four bytes, least significant first, bit by bit: *)
(* reflected polynomial, initial state 0xFFFFFFFF, final xor 0xFFFFFFFF    *)
StdPoly == BytesLE(Rev(PolyBits))
StdOnes == <<255, 255, 255, 255>>
Xor8(a, b) == Num8(XorW(Bits(a, 8), Bits(b, 8)))
StdShift(c) ==
    << (c[1] \div 2) + 128 * (c[2] % 2), (c[2] \div 2) + 128 * (c[3] % 2),
       (c[3] \div 2) + 128 * (c[4] % 2), c[4] \div 2 >>
StdXor(c, d) == << Xor8(c[1], d[1]), Xor8(c[2], d[2]), Xor8(c[3], d[3]), Xor8(c[4], d[4]) >>
RECURSIVE StdBits(_, _)
StdBits(c, k) ==
    IF k = 0 THEN c
    ELSE StdBits(IF c[1] % 2 = 1 THEN StdXor(StdShift(c), StdPoly) ELSE StdShift(c),
                 k - 1)
StdByte(c, b) == StdBits(<< Xor8(c[1], b), c[2], c[3], c[4] >>, 8)
StdCRC32(c) == BitsLE(StdXor(c, StdOnes))

(* the bench: reset, then the bytes of msg and trail, each presented with  *)
(* data_valid for one clock and followed by one clock or more without.     *)
(* pos counts the bytes presented, rest the clocks since the last one,     *)
(* out is crc_out as it was when the trailer was chosen, std the state of  *)
(* the standard CRC-32 over the bytes presented, after the state the       *)
(* engine was in during the last clock if reset was high in it.            *)
CrcInit ==
    [u |-> CRC32Reset, reset |-> 1, data |-> 0, data_valid |-> 0,
     msg |-> <<>>, trail |-> <<>>, pos |-> 0, rest |-> 0,
     out |-> Zeros(32), std |-> StdOnes, rounds |-> 0, after |-> "none"]

----------------------------------------------------------------------------
(* RMIIRxByte and RMIIRx (rmii.py).  rxd is Cat(rxd0, rxd1), 0..3.  The    *)
(* FSM state NIBBLEn of RMIIRxByte is st = "NIBBLE" with nib = n.          *)

SetDibit(data, k, v) == data - ((data \div (4 ^ k)) % 4) * (4 ^ k) + v * (4 ^ k)
Dibit(byte, k) == (byte \div (4 ^ k)) % 4

RMIIRxByteReset ==
    [st |-> "IDLE", nib |-> 1, crs_dv_reg |-> 0, rxd_reg |-> 0,
     data |-> 0, data_valid |-> 0, dv |-> 0, crs |-> 0]

(* a de-muxer that takes crs_dv as data valid on every dibit *)
RMIIRxByteDvEveryDibit(b, crs_dv, rxd) ==
    LET s == [b EXCEPT !.crs_dv_reg = crs_dv, !.rxd_reg = rxd]
    IN CASE b.st = "IDLE" ->
              [s EXCEPT !.crs = 0, !.dv = 0, !.data_valid = 0,
                        !.st = IF b.crs_dv_reg = 1 /\ b.rxd_reg = 1
                               THEN "PREAMBLE_SFD" ELSE "IDLE"]
         [] b.st = "PREAMBLE_SFD" ->
              [s EXCEPT !.crs = 1, !.dv = 1, !.data_valid = 0, !.nib = 1,
                        !.st = IF b.rxd_reg = 3 THEN "NIBBLE"
                               ELSE IF b.rxd_reg # 1 THEN "IDLE"
                               ELSE "PREAMBLE_SFD"]
         [] b.st = "NIBBLE" /\ b.nib < 4 ->
              [s EXCEPT !.data = SetDibit(b.data, b.nib - 1, b.rxd_reg),
                        !.data_valid = 0,
                        !.dv = IF b.dv = 1 THEN b.crs_dv_reg ELSE b.dv,
                        !.st = IF b.dv = 1 THEN "NIBBLE" ELSE "IDLE",
                        !.nib = IF b.dv = 1 THEN b.nib + 1 ELSE 1]
         [] b.st = "NIBBLE" /\ b.nib = 4 ->
              [s EXCEPT !.data = SetDibit(b.data, 3, b.rxd_reg),
                        !.data_valid = 1,
                        !.dv = IF b.dv = 1 THEN b.crs_dv_reg ELSE b.dv,
                        !.st = IF b.dv = 1 THEN "NIBBLE" ELSE "IDLE",
                        !.nib = 1]

(* one clock edge of the de-muxer with the pins of the current clock *)
RMIIRxByte(b, crs_dv, rxd) ==
    LET s == [b EXCEPT !.crs_dv_reg = crs_dv, !.rxd_reg = rxd]
    IN CASE b.st = "IDLE" ->
              [s EXCEPT !.crs = 0, !.dv = 0, !.data_valid = 0,
                        !.st = IF b.crs_dv_reg = 1 /\ b.rxd_reg = 1
                               THEN "PREAMBLE_SFD" ELSE "IDLE"]
         [] b.st = "PREAMBLE_SFD" ->
              [s EXCEPT !.crs = 1, !.dv = 1, !.data_valid = 0, !.nib = 1,
                        !.st = IF b.rxd_reg = 3 THEN "NIBBLE"
                               ELSE IF b.rxd_reg # 1 THEN "IDLE"
                               ELSE "PREAMBLE_SFD"]
         [] b.st = "NIBBLE" /\ b.nib < 4 ->
              [s EXCEPT !.data = SetDibit(b.data, b.nib - 1, b.rxd_reg),
                        !.data_valid = 0,
                        !.crs = IF b.dv = 1 /\ b.nib % 2 = 1 THEN b.crs_dv_reg ELSE b.crs,
                        !.dv = IF b.dv = 1 /\ b.nib % 2 = 0 THEN b.crs_dv_reg ELSE b.dv,
                        !.st = IF b.dv = 1 THEN "NIBBLE" ELSE "IDLE",
                        !.nib = IF b.dv = 1 THEN b.nib + 1 ELSE 1]
         [] b.st = "NIBBLE" /\ b.nib = 4 ->
              [s EXCEPT !.data = SetDibit(b.data, 3, b.rxd_reg),
                        !.data_valid = 1,
                        !.dv = IF b.dv = 1 THEN b.crs_dv_reg ELSE b.dv,
                        !.st = IF b.dv = 1 THEN "NIBBLE" ELSE "IDLE",
                        !.nib = 1]

RMIIRxReset ==
    [st |-> "IDLE", adr |-> 0, rx_len |-> 0, rx_offset |-> 0, rx_valid |-> 0,
     mem |-> [a \in 0..(RmiiMemSize - 1) |-> 0],
     rxbyte |-> RMIIRxByteReset, crc |-> CRC32Reset, mac_match |-> MatcherReset]

(* a write enable that is never high *)
RxWriteEnNever(r) == 0

(* the write enable of the packet buffer in the current clock *)
RxWriteEn(r) == r.rxbyte.data_valid

(* one clock edge of the receiver, its submodules and the write port *)
RMIIRx(r, crs_dv, rxd) ==
    LET data == r.rxbyte.data
        data_valid == r.rxbyte.data_valid
        dv == r.rxbyte.dv
        idle == IF r.st = "IDLE" THEN 1 ELSE 0
        s == [r EXCEPT
                !.rxbyte = RMIIRxByte(r.rxbyte, crs_dv, rxd),
                !.crc = CRC32(r.crc, idle, data, data_valid),
                !.mac_match = MACAddressMatch(r.mac_match, idle, data, data_valid),
                !.mem = IF RxWriteEn(r) = 1 THEN [r.mem EXCEPT ![r.adr] = data]
                        ELSE r.mem]
    IN CASE r.st = "IDLE" ->
              [s EXCEPT !.rx_len = 0, !.rx_valid = 0,
                        !.rx_offset = IF dv = 1 THEN r.adr ELSE r.rx_offset,
                        !.st = IF dv = 1 THEN "DATA" ELSE "IDLE"]
         [] r.st = "DATA" ->
              IF data_valid = 1
              THEN [s EXCEPT !.adr = (r.adr + 1) % RmiiMemSize,
                             !.rx_len = (r.rx_len + 1) % LenMod]
              ELSE IF dv = 0 THEN [s EXCEPT !.st = "EOF"]
              ELSE s
         [] r.st = "EOF" ->
              [s EXCEPT !.rx_valid = IF crc_match(r.crc) = 1 /\ r.mac_match.mac_match = 1
                                     THEN 1 ELSE r.rx_valid,
                        !.st = "IDLE"]

(* the frames put on the pins: the bytes before the FCS, and whether the   *)
(* FCS sent is the CRC-32 of those bytes or has one bit changed            *)
RxPay == <<8, 0, 1>>
RxFrames ==
    { [body |-> mac_addr \o RxPay, good |-> TRUE],
      [body |-> mac_addr \o RxPay, good |-> FALSE],
      [body |-> Broadcast \o RxPay, good |-> TRUE],
      [body |-> <<0, 1, 2, 3, 4, 5>> \o RxPay, good |-> TRUE],
      [body |-> [mac_addr EXCEPT ![1] = 255] \o RxPay, good |-> TRUE],
      [body |-> <<>>, good |-> TRUE],
      [body |-> Frame98, good |-> TRUE] }
Preambles == {1, 10, 31}
(* the number of final bytes of a frame during which crs_dv alternates      *)
(* between carrier sense (low) and data valid (high)                       *)
Tails == {0, 2}
GapClocks == 6 + 20

(* the bench (test_rmii_rx): GapClocks clocks with crs_dv low, a preamble  *)
(* of dibits 01, the SFD dibit 11, the bytes of the frame and of its FCS   *)
(* least significant dibit first, then crs_dv low again.  n counts the     *)
(* clocks of the phase, std is the standard CRC-32 over the bytes sent,    *)
(* adr0 the write address when the frame began, wrote the clocks of the    *)
(* frame in which the write enable was high, before the number of bytes of *)
(* the frames sent before this one, tail the number of final bytes sent    *)
(* with crs_dv alternating, outs the bytes RMIIRxByte has put out with     *)
(* data_valid since the frame began, issued the clocks with rx_valid high  *)
(* so far.                                                                 *)
RmiiRxInit ==
    [u |-> RMIIRxReset, crs_dv |-> 0, rxd |-> 0, phase |-> "gap", n |-> 0,
     frame |-> [body |-> <<>>, good |-> TRUE], bytes |-> <<>>, pre |-> 0,
     std |-> StdOnes, adr0 |-> 0, wrote |-> 0, before |-> 0, tail |-> 0,
     outs |-> <<>>, issued |-> 0, sent |-> 0]

----------------------------------------------------------------------------
(* RMIITxByte and RMIITx (rmii.py).  The FSM state NIBBLEn of RMIITxByte   *)
(* is st = "NIBBLE" with nib = n; txd is Cat(txd0, txd1).                  *)

RMIITxByteReset == [st |-> "IDLE", nib |-> 1, data_reg |-> 0]

ready(b) == IF b.st = "IDLE" \/ (b.st = "NIBBLE" /\ b.nib = 4) THEN 1 ELSE 0
txen(b) == IF b.st = "IDLE" THEN 0 ELSE 1

(* the dibits of data_reg sent most significant first *)
txdMsbFirst(b) == IF b.st = "IDLE" THEN 0 ELSE Dibit(b.data_reg, 4 - b.nib)

txd(b) == IF b.st = "IDLE" THEN 0 ELSE Dibit(b.data_reg, b.nib - 1)

(* one clock edge of the muxer with the inputs of the current clock *)
RMIITxByte(b, data, data_valid) ==
    CASE b.st = "IDLE" ->
           [st |-> IF data_valid = 1 THEN "NIBBLE" ELSE "IDLE", nib |-> 1,
            data_reg |-> data]
      [] b.st = "NIBBLE" /\ b.nib < 4 ->
           [b EXCEPT !.nib = b.nib + 1]
      [] b.st = "NIBBLE" /\ b.nib = 4 ->
           [st |-> IF data_valid = 1 THEN "NIBBLE" ELSE "IDLE", nib |-> 1,
            data_reg |-> data]

(* test_rmii_tx: the frame in memory from address 120 on, the rest 0xFF *)
TxArp ==
    << 255, 255, 255, 255, 255, 255, 2, 68, 78, 48, 118,
       158, 8, 6, 0, 1, 8, 0, 6, 4, 0, 1,
       2, 68, 78, 48, 118, 158, 192, 168, 2, 200, 0,
       0, 0, 0, 0, 0, 192, 168, 2, 200 >>
TxArpFCS == <<68, 94, 180, 210>>
TxMem ==
    [a \in 0..(RmiiMemSize - 1) |->
        LET i == (a + RmiiMemSize - 120) % RmiiMemSize
        IN IF i < Len(TxArp) THEN TxArp[i + 1] ELSE 255]

RMIITxReset ==
    [st |-> "IDLE", tx_idx |-> 0, tx_len |-> 0, tx_offset |-> 0,
     read_data |-> TxMem[0], crc |-> CRC32Reset, txbyte |-> RMIITxByteReset]

(* tx_ready with the inter-frame gap counted as ready *)
tx_readyInGap(t) == IF t.st \in {"IDLE", "IPG"} THEN 1 ELSE 0

tx_ready(t) == IF t.st = "IDLE" THEN 1 ELSE 0

(* txbyte.data in the current clock *)
TxByteData(t) ==
    CASE t.st = "PREAMBLE" -> 85
      [] t.st = "SFD" -> 213
      [] t.st = "DATA" -> t.read_data
      [] t.st = "FCS1" -> BytesLE(crc_out(t.crc))[1]
      [] t.st = "FCS2" -> BytesLE(crc_out(t.crc))[2]
      [] t.st = "FCS3" -> BytesLE(crc_out(t.crc))[3]
      [] t.st = "FCS4" -> BytesLE(crc_out(t.crc))[4]
      [] OTHER -> 0

(* one clock edge of the transmitter, its submodules and the read port *)
RMIITx(t, start, offset, length) ==
    LET rdy == ready(t.txbyte)
        data == TxByteData(t)
        idle == IF t.st = "IDLE" THEN 1 ELSE 0
        s == [t EXCEPT
                !.read_data = TxMem[(t.tx_idx + t.tx_offset) % RmiiMemSize],
                !.crc = CRC32(t.crc, idle, data,
                              IF t.st \in {"DATA", "PAD"} THEN rdy ELSE 0),
                !.txbyte = RMIITxByte(t.txbyte, data,
                                      IF t.st \in {"IDLE", "IPG"} THEN 0 ELSE 1)]
        inc == (t.tx_idx + 1) % RmiiMemSize
    IN CASE t.st = "IDLE" ->
              [s EXCEPT !.tx_idx = 0, !.tx_offset = offset, !.tx_len = length,
                        !.st = IF start = 1 THEN "PREAMBLE" ELSE "IDLE"]
         [] t.st = "PREAMBLE" ->
              IF rdy = 0 THEN s
              ELSE IF t.tx_idx = 6 THEN [s EXCEPT !.tx_idx = 0, !.st = "SFD"]
              ELSE [s EXCEPT !.tx_idx = inc]
         [] t.st = "SFD" ->
              IF rdy = 1 THEN [s EXCEPT !.st = "DATA"] ELSE s
         [] t.st = "DATA" ->
              IF rdy = 0 THEN s
              ELSE [s EXCEPT !.tx_idx = inc,
                             !.st = IF t.tx_idx = t.tx_len - 1
                                    THEN (IF t.tx_len < 60 THEN "PAD" ELSE "FCS1")
                                    ELSE "DATA"]
         [] t.st = "PAD" ->
              IF rdy = 0 THEN s
              ELSE [s EXCEPT !.tx_idx = inc,
                             !.st = IF t.tx_idx = 59 THEN "FCS1" ELSE "PAD"]
         [] t.st = "FCS1" -> IF rdy = 1 THEN [s EXCEPT !.st = "FCS2"] ELSE s
         [] t.st = "FCS2" -> IF rdy = 1 THEN [s EXCEPT !.st = "FCS3"] ELSE s
         [] t.st = "FCS3" -> IF rdy = 1 THEN [s EXCEPT !.st = "FCS4"] ELSE s
         [] t.st = "FCS4" ->
              IF rdy = 1 THEN [s EXCEPT !.tx_idx = 0, !.st = "IPG"] ELSE s
         [] t.st = "IPG" ->
              [s EXCEPT !.tx_idx = inc,
                        !.st = IF t.tx_idx = 48 THEN "IDLE" ELSE "IPG"]

TxLens == {1, 2, 42, 59, 60, 61, 100}
TxOffsets == {0, 77, 120}

(* the bench (test_rmii_tx): tx_start for one clock with an offset and a   *)
(* length, then other values on the inputs while the frame is sent.  cur   *)
(* is what was on the inputs when the frame was taken, clk the clocks      *)
(* since, bytes and part the dibits seen on the pins while txen was high,   *)
(* std the standard CRC-32 over the bytes seen after the SFD, up to the    *)
(* length of data and padding.                                             *)
RmiiTxInit ==
    [u |-> RMIITxReset, tx_start |-> 0, tx_offset |-> 0, tx_len |-> 0,
     cur |-> [off |-> 0, len |-> 0], clk |-> 0,
     part |-> <<>>, bytes |-> <<>>, std |-> StdOnes, path |-> <<"IDLE">>,
     started |-> 0]

----------------------------------------------------------------------------
(* _InternetChecksum on its own (test_ipv4_checksum)                       *)

SampleHeader ==
    << 69, 0, 0, 115, 0, 0, 64, 0, 64, 17, 0, 0, 192, 168, 0, 1, 192, 168, 0, 199 >>
SumBytes == {0, 1, 255}
SumMsgs == SeqsUpTo(SumBytes, MaxSumLen) \cup { SampleHeader }

(* the bench: the bytes of msg one per clock with en, lowbyte for the      *)
(* bytes at odd index, then a clock without en in which the checksum is    *)
(* read, then a reset pulse, and the same bytes again.  pos counts the     *)
(* bytes fed, results holds the checksums read so far.                     *)
SumInit ==
    [state |-> 0, data |-> 0, lowbyte |-> 0, en |-> FALSE, reset |-> FALSE,
     msg |-> <<>>, chosen |-> FALSE, pos |-> 0, results |-> <<>>]

----------------------------------------------------------------------------
(* MDIO (mdio.py).  The latches _phy_addr, _reg_addr, _rw and _write_data  *)
(* are the fields l_phy_addr, l_reg_addr, l_rw and l_write_data.           *)

MDIOReset ==
    [st |-> "IDLE", bit_counter |-> 0, mdc_divider |-> 0, mdc_int |-> 0,
     mdc_rise |-> 0, mdc_fall |-> 0, l_phy_addr |-> 0, l_reg_addr |-> 0,
     l_rw |-> 0, l_write_data |-> 0, read_data |-> 0]

(* the inputs of one clock *)
MdioIn(pa, ra, rw, wd, start, i) ==
    [phy_addr |-> pa, reg_addr |-> ra, rw |-> rw, write_data |-> wd,
     start |-> start, i |-> i]

(* the divided clock for MDC *)
MdcDivider(u, clk_div) ==
    IF u.mdc_divider = 0
    THEN [u EXCEPT !.mdc_divider = clk_div - 1, !.mdc_int = 0,
                   !.mdc_fall = 1, !.mdc_rise = 0]
    ELSE IF u.mdc_divider = clk_div \div 2
    THEN [u EXCEPT !.mdc_divider = u.mdc_divider - 1, !.mdc_int = 1,
                   !.mdc_fall = 0, !.mdc_rise = 1]
    ELSE [u EXCEPT !.mdc_divider = u.mdc_divider - 1,
                   !.mdc_fall = 0, !.mdc_rise = 0]

(* Array(v)[idx] over the n bits of v; an index out of range selects the   *)
(* last element                                                            *)
ArrayBit(v, n, idx) ==
    LET k == IF idx \in 0..(n - 1) THEN idx ELSE n - 1
    IN (v \div (2 ^ k)) % 2

(* Array(v)[idx].eq(b) *)
SetArrayBit(v, n, idx, b) ==
    LET k == IF idx \in 0..(n - 1) THEN idx ELSE n - 1
    IN v - ((v \div (2 ^ k)) % 2) * (2 ^ k) + b * (2 ^ k)

(* the fields counted down on falling edges of MDC: after the last bit the *)
(* counter is loaded with n and the FSM goes to nxt                        *)
MdioField(u, n, nxt) ==
    IF u.mdc_fall = 0 THEN u
    ELSE IF u.bit_counter = 1
    THEN [u EXCEPT !.bit_counter = n, !.st = nxt]
    ELSE [u EXCEPT !.bit_counter = (u.bit_counter - 1) % 64]

MdioFsm(u, in) ==
    CASE u.st = "IDLE" ->
           [u EXCEPT !.l_phy_addr = in.phy_addr, !.l_reg_addr = in.reg_addr,
                     !.l_rw = in.rw, !.l_write_data = in.write_data,
                     !.st = IF in.start = 1 THEN "SYNC" ELSE "IDLE"]
      [] u.st = "SYNC" ->
           IF u.mdc_fall = 1
           THEN [u EXCEPT !.bit_counter = 32, !.st = "PRE_32"] ELSE u
      [] u.st = "PRE_32" -> MdioField(u, 2, "ST")
      [] u.st = "ST" -> MdioField(u, 2, "OP")
      [] u.st = "OP" -> MdioField(u, 5, "PA5")
      [] u.st = "PA5" -> MdioField(u, 5, "RA5")
      [] u.st = "RA5" ->
           IF u.l_rw = 1 THEN MdioField(u, 2, "TA_W") ELSE MdioField(u, 1, "TA_R")
      [] u.st = "TA_R" -> MdioField(u, 16, "D16_R")
      [] u.st = "TA_W" -> MdioField(u, 16, "D16_W")
      [] u.st = "D16_R" ->
           IF u.mdc_fall = 0 THEN u
           ELSE LET S == [u EXCEPT !.read_data =
                            SetArrayBit(u.read_data, 16, u.bit_counter - 1, in.i)]
                IN IF u.bit_counter = 1
                   THEN [S EXCEPT !.st = "READ_LAST_CLOCK"]
                   ELSE [S EXCEPT !.bit_counter = (u.bit_counter - 1) % 64]
      [] u.st = "READ_LAST_CLOCK" ->
           IF u.mdc_fall = 1 THEN [u EXCEPT !.st = "IDLE"] ELSE u
      [] u.st = "D16_W" ->
           IF u.mdc_fall = 0 THEN u
           ELSE IF u.bit_counter = 0 THEN [u EXCEPT !.st = "IDLE"]
           ELSE [u EXCEPT !.bit_counter = (u.bit_counter - 1) % 64]

(* one clock edge of the controller with the inputs of the current clock *)
MDIO(u, in, clk_div) == MdcDivider(MdioFsm(u, in), clk_div)

(* the combinational outputs *)
mdio_busy(u) == IF u.st = "IDLE" THEN 0 ELSE 1

mdio_mdc(u) == IF u.st \in {"IDLE", "SYNC"} THEN 0 ELSE u.mdc_int

mdio_oe(u) ==
    IF u.st \in {"IDLE", "SYNC", "TA_R", "D16_R", "READ_LAST_CLOCK"} THEN 0 ELSE 1

(* an OP field with the opcodes of read and write exchanged *)
mdio_oOpSwapped(u) ==
    CASE u.st = "PRE_32" -> 1
      [] u.st = "ST" -> u.bit_counter % 2
      [] u.st = "OP" ->
           IF u.l_rw = 0 THEN u.bit_counter % 2 ELSE 1 - (u.bit_counter % 2)
      [] u.st = "PA5" -> ArrayBit(u.l_phy_addr, 5, u.bit_counter - 1)
      [] u.st = "RA5" -> ArrayBit(u.l_reg_addr, 5, u.bit_counter - 1)
      [] u.st = "TA_W" -> 1 - (u.bit_counter % 2)
      [] u.st = "D16_W" -> ArrayBit(u.l_write_data, 16, u.bit_counter - 1)
      [] OTHER -> 0

mdio_o(u) ==
    CASE u.st = "PRE_32" -> 1
      [] u.st = "ST" -> u.bit_counter % 2
      [] u.st = "OP" ->
           IF u.l_rw = 1 THEN u.bit_counter % 2 ELSE 1 - (u.bit_counter % 2)
      [] u.st = "PA5" -> ArrayBit(u.l_phy_addr, 5, u.bit_counter - 1)
      [] u.st = "RA5" -> ArrayBit(u.l_reg_addr, 5, u.bit_counter - 1)
      [] u.st = "TA_W" -> 1 - (u.bit_counter % 2)
      [] u.st = "D16_W" -> ArrayBit(u.l_write_data, 16, u.bit_counter - 1)
      [] OTHER -> 0

(* the bits of v, n of them, most significant first *)
MsbFirst(v, n) == [k \in 1..n |-> (v \div (2 ^ (n - k))) % 2]

(* the operations of the benches: reads and writes of a register of a PHY, *)
(* val the value the PHY holds (read) or the value to write                *)
MdioOps ==
    { [rw |-> 0, pa |-> 21, ra |-> 1, val |-> 42405],
      [rw |-> 0, pa |-> 10, ra |-> 30, val |-> 32769],
      [rw |-> 1, pa |-> 21, ra |-> 1, val |-> 42405],
      [rw |-> 1, pa |-> 31, ra |-> 0, val |-> 23130] }

(* the bench (test_mdio_read, test_mdio_write): idle clocks, one clock     *)
(* with start and the inputs of the operation, then zeros on the inputs;   *)
(* at every rising edge of mdc the bench samples mdio.o and mdio.oe, and   *)
(* from the 48th on of a read it puts the next bit of the value on mdio.i. *)
(* op is the operation under way, ops the operations started, cyc the      *)
(* clocks since start was taken.                                           *)
MdioInit ==
    [u |-> MDIOReset, in |-> MdioIn(0, 0, 0, 0, 0, 0), last_mdc |-> 0,
     obits |-> <<>>, oebits |-> <<>>,
     op |-> [rw |-> 0, pa |-> 0, ra |-> 0, val |-> 0], ops |-> 0, cyc |-> 0]

----------------------------------------------------------------------------
(* PHYManager (mac.py) with its MDIO submodule.  registers_to_write is     *)
(* empty, so the FSM has the states RESET, RESET_WAIT, POLL_WAIT, POLL_BSR *)
(* and POLL_BSR_WAIT.  The clock frequency is scaled down: one_ms and the  *)
(* divider are small, one_ms still longer than half a register read.       *)

one_ms == 70
phy_clk_div == 2
phy_addr == 0

(* counter = Signal(max=one_ms) *)
CounterMod == Pow2(bits_for(one_ms - 1))

PHYManagerReset == [st |-> "RESET", counter |-> 0, bsr |-> 0]

(* one clock edge of the controller FSM; busy and read_data come from the  *)
(* MDIO submodule                                                          *)
PHYManager(u, phy_reset, busy, read_data) ==
    LET reload == one_ms % CounterMod
        down == (u.counter - 1) % CounterMod
    IN CASE u.st = "RESET" ->
              [u EXCEPT !.counter = reload, !.st = "RESET_WAIT"]
         [] u.st = "RESET_WAIT" ->
              IF phy_reset = 1 THEN [u EXCEPT !.counter = down, !.st = "RESET"]
              ELSE IF u.counter = 0
              THEN [u EXCEPT !.counter = reload, !.st = "POLL_WAIT"]
              ELSE [u EXCEPT !.counter = down]
         [] u.st = "POLL_WAIT" ->
              IF phy_reset = 1 THEN [u EXCEPT !.counter = down, !.st = "RESET"]
              ELSE IF u.counter = 0
              THEN [u EXCEPT !.counter = down, !.st = "POLL_BSR"]
              ELSE [u EXCEPT !.counter = down]
         [] u.st = "POLL_BSR" ->
              IF phy_reset = 1 THEN [u EXCEPT !.st = "RESET"]
              ELSE IF busy = 1 THEN [u EXCEPT !.st = "POLL_BSR_WAIT"]
              ELSE u
         [] u.st = "POLL_BSR_WAIT" ->
              IF phy_reset = 1 THEN [u EXCEPT !.st = "RESET"]
              ELSE IF busy = 0
              THEN [u EXCEPT !.bsr = read_data, !.counter = reload,
                             !.st = "POLL_WAIT"]
              ELSE u

(* the pin phy_rst (active low) *)
phy_rst(u) == IF u.st \in {"RESET", "RESET_WAIT"} THEN 0 ELSE 1

(* a link_up that does not look at the remote fault bit *)
link_upIgnoresFault(u) ==
    IF /\ ArrayBit(u.bsr, 16, 2) = 1
       /\ ArrayBit(u.bsr, 16, 5) = 1 /\ ArrayBit(u.bsr, 16, 14) = 1
    THEN 1 ELSE 0

link_up(u) ==
    IF /\ ArrayBit(u.bsr, 16, 2) = 1 /\ ArrayBit(u.bsr, 16, 4) = 0
       /\ ArrayBit(u.bsr, 16, 5) = 1 /\ ArrayBit(u.bsr, 16, 14) = 1
    THEN 1 ELSE 0

(* what the controller puts on the inputs of the MDIO submodule *)
PhyMdioIn(u, i) ==
    IF u.st = "POLL_BSR" THEN MdioIn(phy_addr, 1, 0, 0, 1, i)
    ELSE MdioIn(phy_addr, 0, 0, 0, 0, i)

(* values of the basic status register: link up; everything set, remote    *)
(* fault too; no 100 Mbit/s full duplex                                    *)
BsrValues == { 16420, 65535, 36 }

(* the bench: a PHY that answers each read with a value val of its basic   *)
(* status register, driving bit k - 47 after rising edge k = 48..63 of     *)
(* mdc, and phy_reset pulses.  clk counts the rising edges of the read     *)
(* under way, last is the value of the last poll the manager completed     *)
(* (-1: none yet), since the clocks phy_rst has been low since power-up or *)
(* the last clock with phy_reset high, resets the pulses given.            *)
PhyInit ==
    [pm |-> PHYManagerReset, m |-> MDIOReset, phy_reset |-> 0, i |-> 0,
     last_mdc |-> 0, clk |-> 0, val |-> 0, last |-> -1, since |-> 0,
     resets |-> 0]

----------------------------------------------------------------------------
(* Initial state: every register at its reset value, memories as built     *)

ObsInit ==
    [kind |-> "none", req |-> <<>>, busy |-> FALSE, cyc |-> 0, starts |-> 0,
     slen |-> 0, scyc |-> 0, off0 |-> 0, off1 |-> 0, urx |-> 0,
     cache0 |-> [mac |-> Zeros(6), ip4 |-> Zeros(4), port |-> Zeros(2)],
     late |-> FALSE, fresh |-> FALSE, chain |-> 0, both |-> FALSE,
     sent |-> 0, age |-> 0]

ResetState ==
    /\ fsm = "IDLE"
    /\ rx_addr = 0 /\ rx_ack = 0 /\ tx_offset = 0
    /\ eth_run = 0 /\ udp_tx_run = 0
    /\ rx_port_data = 0
    /\ eth = LayerInit(8) /\ arp = LayerInit(0) /\ ipv4 = LayerInit(7)
    /\ icmpv4 = LayerInit(0) /\ udp = LayerInit(2) /\ udp_tx = LayerInit(0)
    /\ ipv4_ck = 0 /\ icmpv4_ck = 0 /\ udp_tx_ck = 0
    /\ payload_n = 0
    /\ user_rx = 0
    /\ user_last = [mac |-> Zeros(6), ip4 |-> Zeros(4), port |-> Zeros(2)]
    /\ w_port = [data |-> 0, addr |-> 0, en |-> 0]
    /\ r_port_data = 0
    /\ rx_mem = [a \in 0..(MemSize - 1) |-> 0]
    /\ tx_mem = [a \in 0..(MemSize - 1) |-> 0]
    /\ user_rx_mem = [a \in 0..(UserMemSize - 1) |-> 0]
    /\ user_tx = 0 /\ rx_valid = 0 /\ rx_offset = 0
    /\ env = [nframes |-> 0, nutx |-> 0, nrx |-> 0, adr |-> 0, frame |-> <<>>]
    /\ obs = ObsInit
    /\ matcher = MatcherInit
    /\ crc32 = CrcInit
    /\ cksum = SumInit /\ rmii_rx = RmiiRxInit
    /\ rmii_tx = RmiiTxInit
    /\ mdio = MdioInit
    /\ phy = PhyInit

Init == sc \in Scenarios /\ ResetState

----------------------------------------------------------------------------
(* What every clock edge does, whatever the state of the IPStack FSM       *)

Datapath ==
    /\ rx_port_data' = rx_mem[rx_addr]
    /\ eth' = [LayerStep(eth, EthernetLayer, eth_run = 1, EthD)
                 EXCEPT !.rx_data = rx_port_data]
    /\ arp' = [LayerStep(arp, ARPLayer, arp_run, ARPD)
                 EXCEPT !.rx_data = eth.rx_data]
    /\ ipv4' = [LayerStep(ipv4, IPv4Layer, ipv4_run, IPv4D)
                 EXCEPT !.rx_data = eth.rx_data]
    /\ icmpv4' = [LayerStep(icmpv4, ICMPv4Layer, icmpv4_run, ICMPv4D)
                 EXCEPT !.rx_data = ipv4.rx_data]
    /\ udp' = [LayerStep(udp, UDPLayer, udp_run, UDPD)
                 EXCEPT !.rx_data = ipv4.rx_data]
    /\ udp_tx' = LayerStep(udp_tx, UDPTxLayer, udp_tx_run = 1, UDPTxD)
    /\ ipv4_ck' = InternetChecksum(ipv4_ck, ipv4.tx_data, ipv4.tx_addr % 2,
                                   ipv4.tx_en = 1, done(ipv4))
    /\ icmpv4_ck' = InternetChecksum(icmpv4_ck, icmpv4.tx_data, icmpv4.tx_addr % 2,
                                     icmpv4.tx_en = 1, done(icmpv4))
    /\ udp_tx_ck' = InternetChecksum(udp_tx_ck, udp_tx.tx_data, udp_tx.tx_addr % 2,
                                     udp_tx.st \in UDPTxChecksumStates, done(udp_tx))
    /\ payload_n' = (total_length - 28) % CtrMod
    /\ user_rx' = UserRx
    /\ user_last' = UserLast
    /\ w_port' = WritePort
    /\ user_rx_mem' = MemWrite(user_rx_mem, w_port.en, w_port.addr, w_port.data)
    /\ r_port_data' = UserTxMem[(0 + udp_tx.ctr) % UserMemSize]
    /\ tx_mem' = MemWrite(tx_mem, tx_port_en, tx_port_addr, tx_port_data)

----------------------------------------------------------------------------
(* The link layer and the application: the inputs of the next clock.       *)
(* A frame is handed over (rx_valid with rx_offset) while the stack is     *)
(* idle and nothing is on offer; it stays on offer until rx_ack.  Frames   *)
(* are stored one after the other in the RX memory.  In the family "seq"   *)
(* a descriptor may also be waiting when a pass ends: the stack samples    *)
(* rx_valid and rx_offset in IDLE only, so a descriptor that arrived       *)
(* during the pass is one that is on offer in its last clock.              *)

Place(mem, off, f) ==
    [a \in 0..(MemSize - 1) |->
        IF (a - off) % MemSize < Len(f) THEN f[((a - off) % MemSize) + 1] ELSE mem[a]]

Environment(taken) ==
    LET nutx == env.nutx + (IF taken = "user" THEN 1 ELSE 0)
        nrx == env.nrx + (IF taken = "rx" THEN 1 ELSE 0)
        lim == IF sc.fam = "burst" THEN MaxBurst ELSE MaxUserTx
    IN /\ \E u \in (IF sc.app /\ nutx < lim THEN {0, 1} ELSE {0}) : user_tx' = u
       /\ \/ /\ fsm = "IDLE" \/ (sc.fam = "seq" /\ done(tx_source))
             /\ rx_valid = 0 /\ env.nframes < MaxFrames
             /\ \E f \in Frames(sc) :
                  /\ rx_mem' = Place(rx_mem, env.adr, f)
                  /\ env' = [nframes |-> env.nframes + 1, nutx |-> nutx, nrx |-> nrx,
                             adr |-> (env.adr + Len(f)) % MemSize, frame |-> f]
                  /\ rx_offset' = env.adr
             /\ rx_valid' = 1
          \/ /\ rx_valid' = IF rx_ack = 1 THEN 0 ELSE rx_valid
             /\ env' = [env EXCEPT !.nutx = nutx, !.nrx = nrx]
             /\ UNCHANGED << rx_mem, rx_offset >>

(* The record of the pass in progress: the frame taken, the clocks since   *)
(* it was taken, the tx_start pulses seen with their tx_len, the clocks    *)
(* with user_rx high.  In the family "seq" also: fresh, the previous clock *)
(* ended a pass with tx_start, and chain, the tx_len of that frame when    *)
(* the pass was taken in the clock after it (0 otherwise), and both: the   *)
(* user pass was taken with rx_valid high as well, or the receive pass     *)
(* follows such a user pass.  In the family "burst": sent, the tx_start    *)
(* pulses since reset, and age, the clocks since the first of them, up to  *)
(* the clocks the transmitter needs for that frame.                        *)
Aged ==
    IF sc.fam = "burst" /\ obs.sent > 0 /\ obs.age < 4 * (8 + 60)
    THEN obs.age + 1 ELSE obs.age

Observe(taken, ends) ==
    IF taken # "none"
    THEN obs' = [kind |-> taken, req |-> IF taken = "rx" THEN env.frame ELSE <<>>,
                 busy |-> TRUE, cyc |-> 1, starts |-> 0, slen |-> 0, scyc |-> 0,
                 off0 |-> tx_offset, off1 |-> tx_offset, urx |-> 0,
                 cache0 |-> user_last, late |-> FALSE, fresh |-> FALSE,
                 chain |-> IF obs.fresh THEN obs.slen ELSE 0,
                 both |-> /\ sc.fam = "seq"
                          /\ IF taken = "user" THEN user_tx = 1 /\ rx_valid = 1
                             ELSE obs.both /\ obs.kind = "user",
                 sent |-> obs.sent, age |-> Aged]
    ELSE obs' = [obs EXCEPT
                 !.busy = obs.busy /\ ~ends,
                 !.cyc = IF obs.busy /\ obs.cyc < CycCap THEN obs.cyc + 1 ELSE obs.cyc,
                 !.starts = obs.starts + (IF tx_start THEN 1 ELSE 0),
                 !.slen = IF tx_start THEN tx_len ELSE obs.slen,
                 !.scyc = IF tx_start THEN obs.cyc ELSE obs.scyc,
                 !.off1 = IF tx_start THEN tx_offset ELSE obs.off1,
                 !.urx = obs.urx + user_rx,
                 !.late = obs.late \/ (fsm # "IDLE" /\ user_tx = 1),
                 !.fresh = (sc.fam = "seq" /\ ends /\ tx_start),
                 !.sent = IF sc.fam = "burst" /\ tx_start
                          THEN obs.sent + 1 ELSE obs.sent,
                 !.age = Aged]

----------------------------------------------------------------------------
(* IPStack.elaborate: one action per branch of the FSM                     *)

(* IDLE, nothing to do *)
Idle ==
    /\ fsm = "IDLE" /\ user_tx = 0 /\ rx_valid = 0
    /\ rx_addr' = rx_offset
    /\ eth_run' = 0 /\ udp_tx_run' = 0
    /\ UNCHANGED << sc, fsm, rx_ack, tx_offset >>
    /\ Datapath /\ Environment("none") /\ Observe("none", FALSE)
    /\ UNCHANGED units

(* a sequencer that acknowledges the waiting frame when it takes user_tx *)
StartUserAcks ==
    /\ fsm = "IDLE" /\ user_tx = 1
    /\ rx_addr' = rx_offset
    /\ eth_run' = 0 /\ udp_tx_run' = 0
    /\ rx_ack' = rx_valid
    /\ fsm' = "SEND_USER"
    /\ UNCHANGED << sc, tx_offset >>
    /\ Datapath /\ Environment("user") /\ Observe("user", FALSE)
    /\ UNCHANGED units

(* IDLE with user_tx *)
StartUser ==
    /\ fsm = "IDLE" /\ user_tx = 1
    /\ rx_addr' = rx_offset
    /\ eth_run' = 0 /\ udp_tx_run' = 0
    /\ fsm' = "SEND_USER"
    /\ UNCHANGED << sc, rx_ack, tx_offset >>
    /\ Datapath /\ Environment("user") /\ Observe("user", FALSE)
    /\ UNCHANGED units

(* a sequencer that takes the frame and does not acknowledge it *)
StartRxNoAck ==
    /\ fsm = "IDLE" /\ user_tx = 0 /\ rx_valid = 1
    /\ rx_addr' = rx_offset
    /\ eth_run' = 0 /\ udp_tx_run' = 0
    /\ fsm' = "PROCESS_RX"
    /\ UNCHANGED << sc, rx_ack, tx_offset >>
    /\ Datapath /\ Environment("rx") /\ Observe("rx", FALSE)
    /\ UNCHANGED units

(* IDLE with rx_valid and no user_tx *)
StartRx ==
    /\ fsm = "IDLE" /\ user_tx = 0 /\ rx_valid = 1
    /\ rx_addr' = rx_offset
    /\ eth_run' = 0 /\ udp_tx_run' = 0
    /\ rx_ack' = 1
    /\ fsm' = "PROCESS_RX"
    /\ UNCHANGED << sc, tx_offset >>
    /\ Datapath /\ Environment("rx") /\ Observe("rx", FALSE)
    /\ UNCHANGED units

(* a sequencer that advances tx_offset at the end of every receive pass *)
ProcessRxOffsetAlways ==
    /\ fsm = "PROCESS_RX"
    /\ rx_addr' = (rx_addr + 1) % MemSize
    /\ eth_run' = IF done(eth) THEN 0 ELSE 1
    /\ rx_ack' = 0
    /\ tx_offset' = IF done(eth)
                    THEN (tx_offset + tx_len) % MemSize ELSE tx_offset
    /\ fsm' = IF done(eth) THEN "IDLE" ELSE "PROCESS_RX"
    /\ UNCHANGED << sc, udp_tx_run >>
    /\ Datapath /\ Environment("none") /\ Observe("none", done(eth))
    /\ UNCHANGED units

ProcessRx ==
    /\ fsm = "PROCESS_RX"
    /\ rx_addr' = (rx_addr + 1) % MemSize
    /\ eth_run' = IF done(eth) THEN 0 ELSE 1
    /\ rx_ack' = 0
    /\ tx_offset' = IF done(eth) /\ send(eth)
                    THEN (tx_offset + tx_len) % MemSize ELSE tx_offset
    /\ fsm' = IF done(eth) THEN "IDLE" ELSE "PROCESS_RX"
    /\ UNCHANGED << sc, udp_tx_run >>
    /\ Datapath /\ Environment("none") /\ Observe("none", done(eth))
    /\ UNCHANGED units

SendUser ==
    /\ fsm = "SEND_USER"
    /\ udp_tx_run' = IF done(udp_tx) THEN 0 ELSE 1
    /\ tx_offset' = IF done(udp_tx) /\ send(udp_tx)
                    THEN (tx_offset + tx_len) % MemSize ELSE tx_offset
    /\ fsm' = IF done(udp_tx) THEN "IDLE" ELSE "SEND_USER"
    /\ UNCHANGED << sc, rx_addr, rx_ack, eth_run >>
    /\ Datapath /\ Environment("none") /\ Observe("none", done(udp_tx))
    /\ UNCHANGED units

Next == Idle \/ StartUser \/ StartRx \/ ProcessRx \/ SendUser

Spec == Init /\ [][Next]_vars

(* The receive path alone, fed with frames whose length fields lie.  A     *)
(* pass is followed for CycCap clocks at most.                             *)
InitHostile == sc = [fam |-> "hostile", len |-> 16, app |-> FALSE] /\ ResetState

ProcessRxWithin == obs.cyc < CycCap /\ ProcessRx

NextRx == Idle \/ StartRx \/ ProcessRxWithin

SpecHostile == InitHostile /\ [][NextRx]_vars

(* Frames and user transmissions one right after the other *)
InitSeq == sc = [fam |-> "seq", len |-> 16, app |-> TRUE] /\ ResetState

SpecSeq == InitSeq /\ [][Next]_vars

(* The receive path fed with fragments of IPv4 datagrams *)
InitFrag == sc = [fam |-> "frag", len |-> 16, app |-> FALSE] /\ ResetState

SpecFrag == InitFrag /\ [][NextRx]_vars

(* The application alone, sending one user frame after the other *)
InitBurst == sc = [fam |-> "burst", len |-> 16, app |-> TRUE] /\ ResetState

NextUser == Idle \/ StartUser \/ SendUser

SpecBurst == InitBurst /\ [][NextUser]_vars

(* The receive path fed with a runt frame and a frame of the minimum size *)
InitRunt == sc = [fam |-> "runt", len |-> 16, app |-> FALSE] /\ ResetState

SpecRunt == InitRunt /\ [][NextRx]_vars


----------------------------------------------------------------------------
(* Vocabulary of the properties: fields of a frame by byte offset, the     *)
(* frame found in TX memory, and the RFC 1071 checksum computed the        *)
(* textbook way.                                                           *)

Field(f, a, n) == SubSeq(f, a + 1, a + n)
U16(f, a) == f[a + 1] * 256 + f[a + 2]

(* n bytes of TX memory from offset a of the frame announced by tx_start *)
Reply(a, n) == [i \in 1..n |-> tx_mem[(obs.off1 + a + i - 1) % MemSize]]

RECURSIVE WordSum(_)
WordSum(s) ==
    IF Len(s) = 0 THEN 0
    ELSE IF Len(s) = 1 THEN s[1] * 256
    ELSE s[1] * 256 + s[2] + WordSum(SubSeq(s, 3, Len(s)))

RECURSIVE Fold(_)
Fold(x) == IF x < 65536 THEN x ELSE Fold((x % 65536) + (x \div 65536))

Rfc1071(s) == 65535 - Fold(WordSum(s))

RxPass == obs.kind = "rx"
RxDone == obs.kind = "rx" /\ ~obs.busy
UserDone == obs.kind = "user" /\ ~obs.busy

(* the checks of the two replying paths and of the UDP receive path *)
IsArpRequest(f) ==
    /\ Len(f) >= 42
    /\ Field(f, 12, 2) = <<8, 6>>
    /\ Field(f, 16, 2) = <<8, 0>>
    /\ Field(f, 20, 2) = <<0, 1>>
    /\ Field(f, 38, 4) = ip4_addr

IsIPv4ToUs(f, proto) ==
    /\ Len(f) >= 42
    /\ Field(f, 12, 2) = <<8, 0>>
    /\ f[15] = 69
    /\ f[24] = proto
    /\ Field(f, 30, 4) = ip4_addr

IsEchoRequest(f) == IsIPv4ToUs(f, 1) /\ f[35] = 8 /\ f[36] = 0

IsUserUdp(f) ==
    /\ IsIPv4ToUs(f, 17)
    /\ U16(f, 36) = user_udp_port
    /\ U16(f, 38) = user_udp_len + 8

----------------------------------------------------------------------------
(* C1: every ARP request for the configured IPv4 address (EtherType 0x0806, *)
(* PTYPE 0x0800, OPER 1, TPA = own address) is answered by exactly one     *)
(* tx_start pulse, at most 128 clocks after the frame was taken, with      *)
(* tx_len = 42, and the 42 bytes at tx_offset are the ARP reply: Ethernet  *)
(* destination = requester, source = own MAC, EtherType 0x0806, HTYPE,     *)
(* PTYPE, HLEN, PLEN copied, OPER 2, SHA = own MAC, SPA = own address,     *)
(* THA = request SHA, TPA = request SPA.                                   *)

ArpReplyOf(f) ==
    Field(f, 6, 6) \o mac_addr \o <<8, 6>> \o Field(f, 14, 6) \o <<0, 2>>
    \o mac_addr \o ip4_addr \o Field(f, 22, 6) \o Field(f, 28, 4)

----------------------------------------------------------------------------
(* C2: every ICMP echo request to the own address with IPv4 total length   *)
(* T >= 29 is answered by exactly one tx_start pulse with tx_len = 14 + T, *)
(* and the reply has Ethernet destination = requester, source = own MAC,   *)
(* IPv4 source = own address, destination = request source, protocol 1,    *)
(* TTL 64, total length T, ICMP type 0, code 0, and identifier, sequence   *)
(* number and the T - 28 payload bytes of the request.                     *)

EchoReplyFields(f, T) ==
    /\ Reply(0, 6) = Field(f, 6, 6)
    /\ Reply(6, 6) = mac_addr
    /\ Reply(12, 2) = <<8, 0>>
    /\ Reply(14, 1) = <<69>>
    /\ Reply(16, 2) = BytesBE(T, 2)
    /\ Reply(22, 2) = <<64, 1>>
    /\ Reply(26, 4) = ip4_addr
    /\ Reply(30, 4) = Field(f, 26, 4)
    /\ Reply(34, 2) = <<0, 0>>
    /\ Reply(38, 4) = Field(f, 38, 4)
    /\ Reply(42, T - 28) = Field(f, 42, T - 28)

EchoAnswered(f, T) ==
    IF obs.busy
    THEN obs.starts = 0 /\ obs.cyc <= 128
    ELSE /\ obs.starts = 1
         /\ obs.slen = 14 + T
         /\ EchoReplyFields(f, T)

(* C2 for any T >= 29, whatever the width of the length registers *)
C2_EchoReplyAnyLength ==
    (RxPass /\ IsEchoRequest(obs.req) /\ U16(obs.req, 16) >= 29) =>
        EchoAnswered(obs.req, U16(obs.req, 16))

(* C2 as amended: T >= 29 and 14 + T no more than the largest 11-bit       *)
(* tx_len (2047) and than the TX memory, the frame carrying its T - 28     *)
(* payload bytes.                                                          *)
C2_EchoReply ==
    (/\ RxPass /\ IsEchoRequest(obs.req)
     /\ U16(obs.req, 16) >= 29
     /\ 14 + U16(obs.req, 16) < LenMod
     /\ 14 + U16(obs.req, 16) <= MemSize
     /\ Len(obs.req) = 14 + U16(obs.req, 16)) =>
        EchoAnswered(obs.req, U16(obs.req, 16))

C2_Witness ==
    /\ RxDone /\ IsEchoRequest(obs.req) /\ obs.starts = 1
    /\ U16(obs.req, 16) = 29 /\ Len(obs.req) = 43
    /\ env.nframes = 2 /\ obs.off0 # 0

----------------------------------------------------------------------------
(* C3: in every answered echo request, the first frame after reset or any  *)
(* later one, bytes 10-11 of the reply's IPv4 header are the RFC 1071      *)
(* checksum of the 20-byte reply header: its ten words sum to 0xFFFF.      *)

C3_IPv4HeaderChecksum ==
    (RxDone /\ IsEchoRequest(obs.req) /\ obs.starts = 1) =>
        Fold(WordSum(Reply(14, 20))) = 65535

----------------------------------------------------------------------------
(* C4: in every answered echo request, whatever the payload and its length, *)
(* bytes 2-3 of the ICMP reply are the RFC 1071 checksum of the whole ICMP *)
(* reply with the checksum field taken as zero.                            *)

IcmpReplyZeroed == Reply(34, 2) \o <<0, 0>> \o Reply(38, obs.slen - 38)

C4_IcmpChecksum ==
    (RxDone /\ IsEchoRequest(obs.req) /\ obs.starts = 1
     /\ obs.slen >= 42 /\ obs.slen <= MemSize) =>
        Reply(36, 2) = BytesBE(Rfc1071(IcmpReplyZeroed), 2)

C4_Witness ==
    /\ RxDone /\ IsEchoRequest(obs.req) /\ obs.starts = 1
    /\ obs.slen = 43 /\ Field(obs.req, 38, 5) = <<255, 255, 255, 255, 255>>
    /\ env.nframes = 2

----------------------------------------------------------------------------
(* C5: a UDP datagram that passes all checks (VER_IHL 0x45, own address,   *)
(* protocol 17, port user_udp_port, length user_udp_len + 8) leaves the    *)
(* Endpoint Cache equal to its Ethernet source, IPv4 source and UDP source *)
(* port, pulses user_rx for exactly one clock, and never asserts tx_start  *)
(* nor changes tx_offset.                                                  *)

C5_UdpReceive ==
    (RxPass /\ IsUserUdp(obs.req)) =>
        /\ obs.starts = 0 /\ ~tx_start /\ tx_offset = obs.off0
        /\ IF obs.busy
           THEN obs.cyc <= 128 /\ obs.urx + user_rx <= 1
           ELSE /\ obs.urx = 1 /\ user_rx = 0
                /\ user_last = [mac |-> Field(obs.req, 6, 6),
                                ip4 |-> Field(obs.req, 26, 4),
                                port |-> Field(obs.req, 34, 2)]

C5_Witness ==
    /\ RxDone /\ IsUserUdp(obs.req) /\ obs.urx = 1
    /\ env.nframes = 2 /\ obs.cache0.ip4 # Field(obs.req, 26, 4)
    /\ obs.cache0.ip4 # Zeros(4)

----------------------------------------------------------------------------
(* C6: after a UDP datagram that passes all checks, the user receive       *)
(* memory holds payload byte i at address i for every i < user_udp_len.    *)

C6_UdpPayload ==
    (RxDone /\ IsUserUdp(obs.req)) =>
        \A i \in 0..(user_udp_len - 1) : user_rx_mem[i] = obs.req[42 + i + 1]

----------------------------------------------------------------------------
(* C7: for every user_tx request taken by the sequencer, with L =          *)
(* user_udp_len, tx_len = L + 42 and the frame at tx_offset has            *)
(* destination MAC = user_last_mac, source = own MAC, EtherType 0x0800,    *)
(* VER_IHL 0x45, DSCP/ECN 0, total length L + 28, identification 0,        *)
(* fragment 0, TTL 64, protocol 17, source = own address, destination =    *)
(* user_last_ip4, UDP source port user_udp_port, destination port          *)
(* user_last_port, UDP length L + 8, UDP checksum 0, then bytes 0..L-1 of  *)
(* the user transmit memory in order.                                      *)

C7_UserFrame ==
    UserDone =>
        /\ obs.starts = 1
        /\ obs.slen = user_udp_len + 42
        /\ Reply(0, 6) = obs.cache0.mac
        /\ Reply(6, 6) = mac_addr
        /\ Reply(12, 4) = <<8, 0, 69, 0>>
        /\ Reply(16, 2) = BytesBE(user_udp_len + 28, 2)
        /\ Reply(18, 6) = <<0, 0, 0, 0, 64, 17>>
        /\ Reply(26, 4) = ip4_addr
        /\ Reply(30, 4) = obs.cache0.ip4
        /\ Reply(34, 2) = BytesBE(user_udp_port, 2)
        /\ Reply(36, 2) = obs.cache0.port
        /\ Reply(38, 2) = BytesBE(user_udp_len + 8, 2)
        /\ Reply(40, 2) = <<0, 0>>
        /\ Reply(42, user_udp_len) = [i \in 1..user_udp_len |-> UserTxMem[i - 1]]

C7_Witness ==
    /\ UserDone /\ obs.starts = 1 /\ user_udp_len = 16
    /\ obs.cache0.mac = HostB.mac /\ env.nframes = 2

----------------------------------------------------------------------------
(* C8: in every user-initiated transmission, whatever the cached           *)
(* destination address, bytes 24-25 of the frame are the RFC 1071 checksum *)
(* of the 20-byte IPv4 header written: its ten words sum to 0xFFFF.        *)

C8_UserIPv4Checksum ==
    (UserDone /\ obs.starts = 1) =>
        Fold(WordSum(Reply(14, 20))) = 65535

----------------------------------------------------------------------------
(* C9: user_ready is high exactly when the sequencer is in IDLE; a user_tx *)
(* high while user_ready is high is taken, and the pass it starts asserts  *)
(* tx_start exactly once, with tx_len = user_udp_len + 42, and ends in     *)
(* IDLE; a user_tx high while user_ready is low starts nothing.            *)

UserPass ==
    /\ user_ready <=> fsm = "IDLE"
    /\ obs.kind = "user" =>
          IF obs.busy
          THEN fsm = "SEND_USER" /\ obs.starts = 0 /\ obs.cyc <= 128
          ELSE fsm = "IDLE" /\ obs.starts = 1 /\ ~tx_start
               /\ obs.slen = user_udp_len + 42

UserTake ==
    /\ (user_tx = 1 /\ user_ready) => (fsm' = "SEND_USER" /\ obs'.kind = "user"
                                       /\ obs'.busy)
    /\ (user_tx = 1 /\ ~user_ready) =>
          /\ fsm' \in {fsm, "IDLE"}
          /\ obs'.kind = obs.kind /\ obs'.cyc >= obs.cyc
    /\ (fsm # "SEND_USER" /\ fsm' = "SEND_USER") => (user_tx = 1 /\ user_ready)

C9_UserTx == [](UserPass) /\ [][UserTake]_vars

C9_Witness ==
    /\ UserDone /\ obs.starts = 1 /\ obs.late /\ env.nframes >= 1

----------------------------------------------------------------------------
(* C10: tx_start is asserted while a received frame is processed only if   *)
(* the frame passed every check of a replying path (ARP request for the    *)
(* own address, or echo request to the own address); any other frame ends  *)
(* its processing with tx_start never asserted and tx_offset unchanged.    *)

C10_NoReply ==
    (RxPass /\ ~IsArpRequest(obs.req) /\ ~IsEchoRequest(obs.req)) =>
        /\ obs.starts = 0 /\ ~tx_start
        /\ tx_offset = obs.off0
        /\ obs.busy => obs.cyc <= 128

C10_Witness ==
    /\ RxDone /\ fsm = "IDLE" /\ obs.starts = 0
    /\ IsIPv4ToUs(obs.req, 6)
    /\ env.nframes = 2 /\ obs.off0 # 0

----------------------------------------------------------------------------
(* C11: whatever the frame (any total-length field, 28 and below           *)
(* included), once the sequencer has taken it the Ethernet layer reports   *)
(* done and the sequencer is back in IDLE after finitely many clocks.      *)

(* No pass that ends can last longer than the states of the layers, gone   *)
(* through once, plus one full revolution of the 11-bit payload counter.   *)
PassBound == CtrMod + 128

C11_Termination == obs.busy => obs.cyc <= PassBound

(* the payload state of the ICMP layer, and what it does with payload_n 0  *)
ICMPv4Payload == StateOf(ICMPv4Layer, "copy_sig_n")

C11_PayloadStateKept ==
    [][(icmpv4.st = ICMPv4Payload /\ payload_n = 0 /\ ICMPv4D.n = 0)
          => icmpv4'.st = ICMPv4Payload]_vars

----------------------------------------------------------------------------
(* The units on their benches: the IP stack stays in reset state.          *)

InitUnits == sc = [fam |-> "none", len |-> 16, app |-> FALSE] /\ ResetState

----------------------------------------------------------------------------
(* test_mac_address_match: one action per kind of clock of the bench       *)

MatchStep(bench) ==
    /\ matcher' = [bench EXCEPT
                     !.u = MACAddressMatch(matcher.u, matcher.reset,
                                           matcher.data, matcher.data_valid)]
    /\ UNCHANGED << stack, crc32, cksum, rmii_rx, rmii_tx, mdio, phy >>

(* a clock with reset high; the bench then releases reset *)
MatchInReset ==
    /\ matcher.reset = 1
    /\ \E a \in MatchAddrs :
         MatchStep([matcher EXCEPT !.reset = 0, !.addr = a, !.pos = 0, !.more = 0])

(* a clock without data_valid before a byte; the bench then presents it *)
MatchWait ==
    /\ matcher.reset = 0 /\ matcher.data_valid = 0 /\ matcher.pos < 6
    /\ MatchStep([matcher EXCEPT !.data = matcher.addr[matcher.pos + 1],
                                 !.data_valid = 1])

(* a clock with one of the six bytes and data_valid *)
MatchByte ==
    /\ matcher.reset = 0 /\ matcher.data_valid = 1 /\ matcher.pos < 6
    /\ MatchStep([matcher EXCEPT !.data_valid = 0, !.pos = matcher.pos + 1])

(* a clock after the six bytes; the bench then drives anything *)
MatchAfter ==
    /\ matcher.reset = 0 /\ matcher.pos = 6 /\ matcher.more < MaxMore
    /\ \E d \in {0, 255}, v \in {0, 1} :
         MatchStep([matcher EXCEPT !.data = d, !.data_valid = v,
                                   !.more = matcher.more + 1,
                                   !.extra = matcher.extra + matcher.data_valid])

(* the last of those clocks; the bench then asserts reset again *)
MatchAgain ==
    /\ matcher.reset = 0 /\ matcher.pos = 6 /\ matcher.more = MaxMore
    /\ matcher.rounds < MaxRounds
    /\ MatchStep([matcher EXCEPT !.reset = 1, !.data = 0, !.data_valid = 0,
                                 !.addr = Zeros(6), !.pos = 0, !.more = 0,
                                 !.extra = 0,
                                 !.rounds = matcher.rounds + 1])

NextMatch == MatchInReset \/ MatchWait \/ MatchByte \/ MatchAfter \/ MatchAgain

SpecMatch == InitUnits /\ [][NextMatch]_vars

(* the bytes presented with data_valid since reset *)
MatchFed == SubSeq(matcher.addr, 1, matcher.pos)

----------------------------------------------------------------------------
(* C13: after reset and six bytes fed in order, mac_match is high if and   *)
(* only if the six bytes are the configured MAC address or are all 0xFF;   *)
(* an address mixing configured bytes with 0xFF bytes does not match.      *)

C13_MatchExact ==
    (matcher.pos = 6 /\ matcher.more >= 1) =>
        (matcher.u.mac_match = 1 <=> (MatchFed = mac_addr \/ MatchFed = Broadcast))

(* what the matcher computes: every byte is the configured one or 0xFF *)
C13_MatchPerByte ==
    (matcher.pos = 6 /\ matcher.more >= 1) =>
        (matcher.u.mac_match = 1 <=>
            \A i \in 1..6 : MatchFed[i] = mac_addr[i] \/ MatchFed[i] = 255)

----------------------------------------------------------------------------
(* test_crc32: one action per kind of clock of the bench                   *)

CrcStep(bench) ==
    /\ crc32' = [bench EXCEPT
                   !.u = CRC32(crc32.u, crc32.reset, crc32.data, crc32.data_valid),
                   !.after = IF crc32.reset = 1 THEN crc32.u.st ELSE "none"]
    /\ UNCHANGED << stack, matcher, cksum, rmii_rx, rmii_tx, mdio, phy >>

(* the bytes to feed, and those presented so far *)
CrcPlan == crc32.msg \o crc32.trail
CrcFed == SubSeq(CrcPlan, 1, crc32.pos)

(* a clock with reset high; the bench then releases reset *)
CrcInReset ==
    /\ crc32.reset = 1
    /\ \E m \in CrcMsgs :
         CrcStep([crc32 EXCEPT !.reset = 0, !.msg = m])

(* a clock without data_valid; the bench then presents the next byte *)
CrcGap ==
    /\ crc32.reset = 0 /\ crc32.data_valid = 0 /\ crc32.pos < Len(CrcPlan)
    /\ CrcStep([crc32 EXCEPT !.data = CrcPlan[crc32.pos + 1], !.data_valid = 1,
                             !.rest = 0])

(* a clock with a byte and data_valid *)
CrcByte ==
    /\ crc32.reset = 0 /\ crc32.data_valid = 1
    /\ CrcStep([crc32 EXCEPT !.data = 0, !.data_valid = 0,
                             !.pos = crc32.pos + 1, !.rest = 0,
                             !.std = StdByte(crc32.std, crc32.data)])

(* a clock without data_valid, followed by another *)
CrcRest ==
    /\ crc32.reset = 0 /\ crc32.data_valid = 0 /\ crc32.rest < MaxRest
    /\ CrcStep([crc32 EXCEPT !.rest = crc32.rest + 1])

(* a clock after the message; the bench then appends four bytes *)
CrcTrailer ==
    /\ crc32.reset = 0 /\ crc32.data_valid = 0 /\ crc32.rest >= 1
    /\ crc32.pos = Len(crc32.msg) /\ crc32.trail = <<>>
    /\ \E t \in Trailers(crc_out(crc32.u)) :
         CrcStep([crc32 EXCEPT !.trail = t, !.out = crc_out(crc32.u),
                               !.data = t[1], !.data_valid = 1, !.rest = 0])

(* a clock after all bytes; the bench then asserts reset again *)
CrcAgain ==
    /\ crc32.reset = 0 /\ crc32.data_valid = 0 /\ crc32.rest >= 1
    /\ crc32.pos = Len(CrcPlan) /\ crc32.trail # <<>>
    /\ crc32.rounds < MaxRounds
    /\ CrcStep([CrcInit EXCEPT !.u = crc32.u, !.rounds = crc32.rounds + 1])

NextCrc == CrcInReset \/ CrcGap \/ CrcByte \/ CrcRest \/ CrcTrailer \/ CrcAgain

SpecCrc == InitUnits /\ [][NextCrc]_vars

(* The bench that also gives up its first message: in the clock that      *)
(* presents the first byte, or in one before it, it asserts reset for the  *)
(* next clock.                                                             *)
CrcAbort ==
    /\ crc32.reset = 0 /\ crc32.pos = 0 /\ crc32.msg # <<>>
    /\ crc32.rounds = 0
    /\ CrcStep([CrcInit EXCEPT !.u = crc32.u, !.rounds = crc32.rounds + 1])

NextCrcReset == NextCrc \/ CrcAbort

SpecCrcReset == InitUnits /\ [][NextCrcReset]_vars

(* the CRC has been reset and has taken every byte presented *)
CrcSettled == crc32.reset = 0 /\ crc32.data_valid = 0 /\ crc32.rest >= 1

----------------------------------------------------------------------------
(* C15: for every byte sequence fed to CRC32 after reset, each data_valid  *)
(* pulse followed by at least one clock without, crc_out is the standard   *)
(* CRC-32 of the sequence; the bytes of "123456789" give 0xCBF43926.       *)

C15_CrcStandard ==
    CrcSettled =>
        /\ crc_out(crc32.u) = StdCRC32(crc32.std)
        /\ CrcFed = Check9 => BytesLE(crc_out(crc32.u)) = <<38, 57, 244, 203>>

C15_Witness ==
    /\ CrcSettled /\ CrcFed = Check9
    /\ BytesLE(crc_out(crc32.u)) = <<38, 57, 244, 203>>

----------------------------------------------------------------------------
(* C16: after a byte sequence M followed by the four bytes of the crc_out  *)
(* obtained for M, least significant byte first, crc_match is high; after  *)
(* M followed by any other four bytes it is low.                           *)

C16_CrcMatch ==
    (CrcSettled /\ crc32.trail # <<>> /\ crc32.pos = Len(CrcPlan)) =>
        (crc_match(crc32.u) = 1 <=> crc32.trail = BytesLE(crc32.out))

C16_Witness ==
    /\ CrcSettled /\ crc32.pos = Len(CrcPlan)
    /\ crc32.msg = Frame98 /\ crc32.trail = Frame98FCS
    /\ crc_match(crc32.u) = 1

----------------------------------------------------------------------------
(* test_ipv4_checksum: one action per kind of clock of the bench           *)

SumStep(bench) ==
    /\ cksum' = [bench EXCEPT
                   !.state = InternetChecksum(cksum.state, cksum.data,
                                              cksum.lowbyte, cksum.en, cksum.reset)]
    /\ UNCHANGED << stack, matcher, crc32, rmii_rx, rmii_tx, mdio, phy >>

(* what the bench drives to feed byte i of m, or to stop feeding *)
SumDrive(bench, m, i) ==
    IF i <= Len(m)
    THEN [bench EXCEPT !.msg = m, !.chosen = TRUE, !.data = m[i],
                       !.lowbyte = (i - 1) % 2, !.en = TRUE]
    ELSE [bench EXCEPT !.msg = m, !.chosen = TRUE, !.en = FALSE]

(* a clock before the first byte; the first time the bench picks the bytes *)
SumIdle ==
    /\ ~cksum.reset /\ ~cksum.en /\ cksum.pos = 0
    /\ \E m \in IF cksum.chosen THEN { cksum.msg } ELSE SumMsgs :
         /\ Len(m) > 0
         /\ SumStep(SumDrive(cksum, m, 1))

(* a clock with a byte and en *)
SumByte ==
    /\ ~cksum.reset /\ cksum.en
    /\ SumStep(SumDrive([cksum EXCEPT !.pos = cksum.pos + 1], cksum.msg,
                        cksum.pos + 2))

(* the clock after the last byte, in which the checksum is read; the bench *)
(* then asserts reset, with en or without                                  *)
SumRead ==
    /\ ~cksum.reset /\ ~cksum.en /\ cksum.pos > 0
    /\ Len(cksum.results) <= MaxRounds
    /\ \E e \in BOOLEAN :
         SumStep([cksum EXCEPT !.results = Append(cksum.results, checksum(cksum.state)),
                               !.reset = TRUE, !.en = e])

(* a clock with reset; the bench then releases it *)
SumInReset ==
    /\ cksum.reset
    /\ SumStep([cksum EXCEPT !.reset = FALSE, !.en = FALSE, !.pos = 0])

NextSum == SumIdle \/ SumByte \/ SumRead \/ SumInReset

SpecSum == InitUnits /\ [][NextSum]_vars

SumFed == SubSeq(cksum.msg, 1, cksum.pos)
(* the clock after the last byte *)
SumAtRead == ~cksum.reset /\ ~cksum.en /\ cksum.pos > 0

----------------------------------------------------------------------------
(* C17: for every byte sequence fed to _InternetChecksum after reset, one  *)
(* byte per clock, lowbyte = 1 for the bytes at odd positions, the         *)
(* checksum read in the clock after the last byte is the RFC 1071 checksum *)
(* of the sequence, every carry folded back in; the 20-byte sample header  *)
(* gives 0xB861.                                                           *)

C17_ChecksumRfc1071 ==
    SumAtRead => checksum(cksum.state) = Rfc1071(SumFed)

(* what the engine gives: the carry out of the last addition is not in the *)
(* output; the sample header leaves no carry                               *)
C17_ChecksumPendingCarry ==
    SumAtRead =>
        /\ checksum(cksum.state)
             = (Rfc1071(SumFed) + (cksum.state \div WordMod)) % WordMod
        /\ SumFed = SampleHeader => checksum(cksum.state) = 47201

----------------------------------------------------------------------------
(* C18: after a reset pulse (reset taking priority over en), feeding the   *)
(* same byte sequence again yields the same checksum as the first time,    *)
(* for every sequence and any number of repetitions.                       *)

C18_Idempotent ==
    \A i, j \in DOMAIN cksum.results : cksum.results[i] = cksum.results[j]

C18_Witness ==
    /\ Len(cksum.results) = MaxRounds + 1
    /\ cksum.msg = SampleHeader
    /\ cksum.results[1] = 47201

----------------------------------------------------------------------------
(* test_rmii_rx: one action per kind of clock of the bench                 *)

RxStep(bench) ==
    /\ rmii_rx' = [bench EXCEPT
                     !.u = RMIIRx(rmii_rx.u, rmii_rx.crs_dv, rmii_rx.rxd),
                     !.wrote = bench.wrote + RxWriteEn(rmii_rx.u),
                     !.outs = IF rmii_rx.u.rxbyte.data_valid = 1
                              THEN Append(bench.outs, rmii_rx.u.rxbyte.data)
                              ELSE bench.outs,
                     !.issued = bench.issued + rmii_rx.u.rx_valid]
    /\ UNCHANGED << stack, matcher, crc32, cksum, rmii_tx, mdio, phy >>

(* the FCS the bench sends after the bytes whose CRC-32 state is c *)
RxFCS(c, good) ==
    LET fcs == StdXor(c, StdOnes)
    IN IF good THEN fcs ELSE [fcs EXCEPT ![1] = Xor8(fcs[1], 1)]

(* a clock with crs_dv low, followed by another *)
RxGap ==
    /\ rmii_rx.phase = "gap" /\ rmii_rx.n < GapClocks
    /\ RxStep([rmii_rx EXCEPT !.n = rmii_rx.n + 1])

(* the last clock of the gap; the bench then starts a frame *)
RxStart ==
    /\ rmii_rx.phase = "gap" /\ rmii_rx.n = GapClocks
    /\ rmii_rx.sent < MaxRxFrames
    /\ \E f \in RxFrames, p \in Preambles, t \in Tails :
         RxStep([rmii_rx EXCEPT
                   !.crs_dv = 1, !.rxd = 1, !.phase = "pre", !.n = 1, !.pre = p,
                   !.frame = f, !.bytes = f.body, !.std = StdOnes,
                   !.adr0 = rmii_rx.u.adr, !.wrote = 0, !.tail = t, !.outs = <<>>,
                   !.before = rmii_rx.before + Len(rmii_rx.bytes),
                   !.sent = rmii_rx.sent + 1])

(* a clock with a preamble dibit; the SFD follows the last one *)
RxPreamble ==
    /\ rmii_rx.phase = "pre"
    /\ IF rmii_rx.n < rmii_rx.pre
       THEN RxStep([rmii_rx EXCEPT !.n = rmii_rx.n + 1])
       ELSE RxStep([rmii_rx EXCEPT !.rxd = 3, !.phase = "sfd"])

(* bench after dibit number n (from 0) of the frame has been on the pins:  *)
(* the next dibit, the FCS appended after the last byte of the body, or    *)
(* crs_dv low after the last dibit of the FCS                              *)
RxDrive(bench, n) ==
    LET i == n \div 4
        std == IF n % 4 = 0 /\ i >= 1 /\ i <= Len(bench.frame.body)
               THEN StdByte(bench.std, bench.bytes[i]) ELSE bench.std
        bytes == IF n = 4 * Len(bench.frame.body)
                 THEN bench.bytes \o RxFCS(std, bench.frame.good)
                 ELSE bench.bytes
    IN IF n < 4 * Len(bytes)
       THEN [bench EXCEPT !.phase = "data", !.n = n, !.std = std, !.bytes = bytes,
                          !.rxd = Dibit(bytes[i + 1], n % 4),
                          !.crs_dv = IF i >= Len(bench.frame.body) + 4 - bench.tail
                                        /\ n % 2 = 0
                                     THEN 0 ELSE 1]
       ELSE [bench EXCEPT !.phase = "gap", !.n = 0, !.crs_dv = 0]

(* the clock with the SFD dibit *)
RxSFD ==
    /\ rmii_rx.phase = "sfd"
    /\ RxStep(RxDrive(rmii_rx, 0))

(* a clock with a dibit of the frame or of its FCS *)
RxData ==
    /\ rmii_rx.phase = "data"
    /\ RxStep(RxDrive(rmii_rx, rmii_rx.n + 1))

NextRmiiRx == RxGap \/ RxStart \/ RxPreamble \/ RxSFD \/ RxData

SpecRmiiRx == InitUnits /\ [][NextRmiiRx]_vars

(* the frame on the pins, or the last one, and what a receiver has to find *)
RxDst == SubSeq(rmii_rx.frame.body, 1, 6)
RxFilterAccepts ==
    /\ Len(rmii_rx.frame.body) >= 6
    /\ \A i \in 1..6 : RxDst[i] = mac_addr[i] \/ RxDst[i] = 255
RxFcsGood ==
    /\ Len(rmii_rx.bytes) = Len(rmii_rx.frame.body) + 4
    /\ StdByte(StdByte(StdByte(StdByte(rmii_rx.std,
           rmii_rx.bytes[Len(rmii_rx.bytes) - 3]), rmii_rx.bytes[Len(rmii_rx.bytes) - 2]),
           rmii_rx.bytes[Len(rmii_rx.bytes) - 1]), rmii_rx.bytes[Len(rmii_rx.bytes)])
         = BytesLE(Residual)

----------------------------------------------------------------------------
(* C12: RMIIRx asserts rx_valid for a received frame only if, at end of    *)
(* frame, the CRC-32 residual check over all received bytes succeeds and   *)
(* the destination address matched the address filter; a frame failing     *)
(* either check never raises rx_valid.                                     *)

C12_RxValid ==
    rmii_rx.u.rx_valid = 1 =>
        /\ rmii_rx.phase = "gap"
        /\ RxFcsGood /\ RxFilterAccepts
        /\ rmii_rx.u.rx_len = Len(rmii_rx.bytes)
        /\ rmii_rx.u.rx_offset = rmii_rx.adr0

C12_Witness ==
    /\ rmii_rx.u.rx_valid = 1 /\ rmii_rx.sent = 2
    /\ rmii_rx.frame.body = Frame98 /\ rmii_rx.bytes = Frame98 \o Frame98FCS
    /\ rmii_rx.u.rx_len = 102 /\ rmii_rx.u.rx_offset = 102

(* frames with a wrong FCS or refused by the filter have been on the pins  *)
(* to the end and rx_valid stayed low                                      *)
C12_WitnessRefused ==
    /\ rmii_rx.phase = "gap" /\ rmii_rx.n = GapClocks /\ rmii_rx.sent = 1
    /\ ~rmii_rx.frame.good /\ RxFilterAccepts
    /\ rmii_rx.u.rx_valid = 0

----------------------------------------------------------------------------
(* C14: for a frame whose destination address is neither the own MAC       *)
(* address nor broadcast, the write enable of the packet buffer is never   *)
(* asserted for any byte of the frame, and the write address is the same   *)
(* after the frame as before it.                                           *)

C14_NoWriteActivity ==
    (rmii_rx.sent >= 1 /\ Len(rmii_rx.frame.body) >= 6
       /\ RxDst # mac_addr /\ RxDst # Broadcast) =>
        /\ rmii_rx.wrote = 0
        /\ rmii_rx.u.adr = rmii_rx.adr0

(* what the receiver does: every byte of every frame is written and the    *)
(* write address has advanced by the length of the frame                   *)
C14_EveryByteWritten ==
    (rmii_rx.phase = "gap" /\ rmii_rx.n = GapClocks /\ rmii_rx.sent >= 1) =>
        /\ rmii_rx.wrote = Len(rmii_rx.bytes)
        /\ rmii_rx.u.adr = (rmii_rx.adr0 + Len(rmii_rx.bytes)) % RmiiMemSize
        /\ \A i \in 1..Len(rmii_rx.bytes) :
             rmii_rx.u.mem[(rmii_rx.adr0 + i - 1) % RmiiMemSize] = rmii_rx.bytes[i]

----------------------------------------------------------------------------
(* test_rmii_tx: one action per kind of clock of the bench                 *)

(* the length of data and padding of a frame of len bytes *)
TxPaddedLen(len) == IF len < 60 THEN 60 ELSE len

(* the pins sampled in the current clock, as the testbench collects them *)
TxSample(bench) ==
    IF txen(rmii_tx.u.txbyte) = 0 THEN bench
    ELSE IF Len(rmii_tx.part) < 3
    THEN [bench EXCEPT !.part = Append(rmii_tx.part, txd(rmii_tx.u.txbyte))]
    ELSE LET byte == rmii_tx.part[1] + 4 * rmii_tx.part[2]
                     + 16 * rmii_tx.part[3] + 64 * txd(rmii_tx.u.txbyte)
             n == Len(rmii_tx.bytes) + 1
         IN [bench EXCEPT
               !.part = <<>>,
               !.bytes = Append(rmii_tx.bytes, byte),
               !.std = IF n > 8 /\ n <= 8 + TxPaddedLen(rmii_tx.cur.len)
                       THEN StdByte(rmii_tx.std, byte) ELSE rmii_tx.std]

TxStep(bench) ==
    LET next == RMIITx(rmii_tx.u, rmii_tx.tx_start, rmii_tx.tx_offset, rmii_tx.tx_len)
    IN /\ rmii_tx' = [bench EXCEPT
                        !.u = next,
                        !.path = IF next.st # rmii_tx.u.st
                                 THEN Append(bench.path, next.st) ELSE bench.path]
       /\ UNCHANGED << stack, matcher, crc32, cksum, rmii_rx, mdio, phy >>

(* a clock in IDLE without tx_start; the bench then starts a frame or not *)
TxWait ==
    /\ rmii_tx.u.st = "IDLE" /\ rmii_tx.tx_start = 0
    /\ \/ TxStep(rmii_tx)
       \/ /\ rmii_tx.started < MaxTxFrames
          /\ \E o \in TxOffsets, l \in TxLens :
               TxStep([rmii_tx EXCEPT !.tx_start = 1, !.tx_offset = o, !.tx_len = l])

(* what the bench drives while a frame is sent: nothing, or a start with   *)
(* another offset and length                                               *)
TxDisturb(bench, noisy) ==
    IF noisy THEN [bench EXCEPT !.tx_start = 1, !.tx_offset = 5, !.tx_len = 1]
    ELSE [bench EXCEPT !.tx_start = 0, !.tx_offset = 0, !.tx_len = 0]

(* the clock in IDLE with tx_start: the frame is taken *)
TxTake ==
    /\ rmii_tx.u.st = "IDLE" /\ rmii_tx.tx_start = 1
    /\ \E noisy \in BOOLEAN :
         /\ noisy => rmii_tx.started + 1 < MaxTxFrames
         /\ TxStep(TxDisturb([rmii_tx EXCEPT
                                !.cur = [off |-> rmii_tx.tx_offset, len |-> rmii_tx.tx_len],
                                !.clk = 0, !.part = <<>>, !.bytes = <<>>,
                                !.std = StdOnes,
                                !.path = <<"IDLE">>,
                                !.started = rmii_tx.started + 1], noisy))

(* a clock of the frame or of the gap after it *)
TxBusy ==
    /\ rmii_tx.u.st # "IDLE"
    /\ \E noisy \in BOOLEAN :
         /\ noisy => rmii_tx.started < MaxTxFrames
         /\ TxStep(TxDisturb(TxSample([rmii_tx EXCEPT !.clk = rmii_tx.clk + 1]), noisy))

NextRmiiTx == TxWait \/ TxTake \/ TxBusy

SpecRmiiTx == InitUnits /\ [][NextRmiiTx]_vars

(* the frame on the wire for an offset and a length, before the FCS *)
TxPadded(off, len) ==
    [i \in 1..TxPaddedLen(len) |->
        IF i <= len THEN TxMem[(off + i - 1) % RmiiMemSize] ELSE 0]
TxExpected(off, len) == <<85, 85, 85, 85, 85, 85, 85, 213>> \o TxPadded(off, len)

(* the frame taken has been sent and the transmitter is in IDLE again *)
TxDone == rmii_tx.started >= 1 /\ rmii_tx.u.st = "IDLE" /\ rmii_tx.clk > 0

----------------------------------------------------------------------------
(* C19: for every transmission started with tx_start while tx_ready is     *)
(* high, with any tx_offset and any tx_len >= 1, the bytes sent on the     *)
(* pins while txen is high are seven bytes 0x55, one byte 0xD5, the tx_len *)
(* bytes of memory from tx_offset on (addresses modulo the memory size),   *)
(* zero bytes up to 60 bytes when tx_len < 60, then the four bytes of the  *)
(* CRC-32 over data and padding, least significant byte first; each byte   *)
(* is sent as four dibits, least significant first.                        *)

C19_TxStream ==
    rmii_tx.started >= 1 =>
        LET want == TxExpected(rmii_tx.cur.off, rmii_tx.cur.len)
            m == Len(want)
            n == Len(rmii_tx.bytes)
            k == Len(rmii_tx.part)
            fcs == StdXor(rmii_tx.std, StdOnes)
        IN /\ n <= m + 4
           /\ \A i \in 1..n :
                rmii_tx.bytes[i] = IF i <= m THEN want[i] ELSE fcs[i - m]
           /\ k > 0 =>
                /\ n < m + 4
                /\ \A j \in 1..k :
                     rmii_tx.part[j]
                       = Dibit(IF n < m THEN want[n + 1] ELSE fcs[n + 1 - m], j - 1)
           /\ TxDone => (n = m + 4 /\ k = 0)

C19_Witness ==
    /\ TxDone /\ rmii_tx.cur = [off |-> 120, len |-> 42]
    /\ rmii_tx.bytes =
         <<85, 85, 85, 85, 85, 85, 85, 213>> \o TxArp \o Zeros(18) \o TxArpFCS

(* frames of 60 bytes and more are sent without padding, also across the   *)
(* end of the memory                                                       *)
C19_WitnessUnpadded ==
    /\ TxDone /\ rmii_tx.cur = [off |-> 77, len |-> 61]
    /\ Len(rmii_tx.bytes) = 8 + 61 + 4

----------------------------------------------------------------------------
(* C20: tx_ready of the transmitter is asserted only in IDLE: from the     *)
(* clock after a tx_start is taken until the inter-frame gap has elapsed   *)
(* tx_ready is low, the latched offset and length cannot change, and for   *)
(* every tx_len >= 1 the transmitter returns to IDLE through PREAMBLE,     *)
(* SFD, DATA, PAD for short frames, FCS1..FCS4 and IPG, in that order.     *)

(* the clocks from the one after the take to the first one in IDLE again:  *)
(* four per byte of preamble, SFD, data, padding and FCS1..FCS3, then one  *)
(* in FCS4 and 49 in IPG                                                   *)
TxDuration(len) == 4 * (TxPaddedLen(len) + 11) + 1 + 49
TxPath(len) ==
    <<"IDLE", "PREAMBLE", "SFD", "DATA">>
        \o (IF len < 60 THEN <<"PAD">> ELSE <<>>)
        \o <<"FCS1", "FCS2", "FCS3", "FCS4", "IPG", "IDLE">>

C20_TxReady ==
    /\ tx_ready(rmii_tx.u) = 1 => rmii_tx.u.st = "IDLE"
    /\ rmii_tx.started >= 1 =>
         LET D == TxDuration(rmii_tx.cur.len)
             want == TxPath(rmii_tx.cur.len)
         IN /\ rmii_tx.clk <= D
            /\ rmii_tx.path = SubSeq(want, 1, Len(rmii_tx.path))
            /\ rmii_tx.clk < D =>
                 /\ tx_ready(rmii_tx.u) = 0
                 /\ rmii_tx.u.tx_len = rmii_tx.cur.len
                 /\ rmii_tx.u.tx_offset = rmii_tx.cur.off
            /\ rmii_tx.clk = D =>
                 /\ tx_ready(rmii_tx.u) = 1
                 /\ rmii_tx.path = want

(* a short frame has been sent and the transmitter is in IDLE again *)
C20_Witness ==
    /\ TxDone /\ rmii_tx.cur.len = 59
    /\ rmii_tx.clk = TxDuration(59)
    /\ rmii_tx.path = TxPath(59)

(* a start with another offset and length arrives while a frame is sent *)
C20_WitnessDisturbed ==
    /\ rmii_tx.u.st = "DATA" /\ rmii_tx.tx_start = 1
    /\ rmii_tx.cur.len = 61 /\ rmii_tx.u.tx_len = 61 /\ rmii_tx.tx_len = 1

----------------------------------------------------------------------------
(* C21: for every accepted frame, when rx_valid is asserted rx_len is the  *)
(* number of bytes received for the frame (FCS included), rx_offset is the *)
(* buffer address of its first byte, the buffer holds byte i of the frame  *)
(* at address (rx_offset + i) modulo the memory size, and the frame starts *)
(* at the address after the last byte of the frame received before it      *)
(* (the first frame at address 0).                                         *)

C21_Descriptor ==
    rmii_rx.u.rx_valid = 1 =>
        /\ rmii_rx.u.rx_len = Len(rmii_rx.bytes)
        /\ rmii_rx.u.rx_offset = rmii_rx.before % RmiiMemSize
        /\ \A i \in 1..Len(rmii_rx.bytes) :
             rmii_rx.u.mem[(rmii_rx.u.rx_offset + i - 1) % RmiiMemSize]
               = rmii_rx.bytes[i]

(* the second frame is accepted and lies across the end of the memory *)
C21_Witness ==
    /\ rmii_rx.u.rx_valid = 1 /\ rmii_rx.sent = 2
    /\ rmii_rx.before = 102 /\ Len(rmii_rx.bytes) = 102
    /\ rmii_rx.u.rx_offset = 102
    /\ rmii_rx.u.mem[101] = 158 /\ rmii_rx.u.mem[102] = 255
    /\ rmii_rx.u.mem[(102 + 101) % RmiiMemSize] = 158

(* a frame is accepted right after a frame the receiver refused *)
C21_WitnessAfterRefused ==
    /\ rmii_rx.u.rx_valid = 1 /\ rmii_rx.sent = 2
    /\ rmii_rx.before = 13 /\ rmii_rx.u.rx_offset = 13
    /\ rmii_rx.u.mem[0] = 0 /\ rmii_rx.u.mem[1] = 1

----------------------------------------------------------------------------
(* C29: once six address bytes have been fed to the address filter after a *)
(* reset, mac_match keeps its value whatever further bytes are fed with    *)
(* data_valid, and changes only after reset is asserted again.  The output *)
(* is a register: it shows the six bytes from the second clock after the   *)
(* sixth byte, which is the first clock in which a further byte can come.  *)

C29_MatchStable ==
    [][(matcher.pos = 6 /\ matcher.more >= 1 /\ matcher'.pos = 6)
          => matcher'.u.mac_match = matcher.u.mac_match]_vars

(* two further bytes have been fed after a matching address *)
C29_Witness ==
    /\ matcher.pos = 6 /\ matcher.more = MaxMore /\ matcher.extra >= 2
    /\ matcher.addr = mac_addr /\ matcher.u.mac_match = 1

----------------------------------------------------------------------------
(* C30: for every byte sequence presented on rxd0/rxd1 as dibits, least    *)
(* significant dibit first, after a preamble of any length and the start   *)
(* delimiter, RMIIRxByte outputs every byte exactly once, in order, with   *)
(* data_valid high for one clock per byte, including the final bytes of a  *)
(* frame during which crs_dv alternates between carrier sense low and data *)
(* valid high; no byte is output after data valid has dropped.             *)

C30_RxBytes ==
    rmii_rx.sent >= 1 =>
        /\ Len(rmii_rx.outs) <= Len(rmii_rx.bytes)
        /\ rmii_rx.outs = SubSeq(rmii_rx.bytes, 1, Len(rmii_rx.outs))
        /\ (rmii_rx.phase = "gap" /\ rmii_rx.n >= 4) =>
              /\ rmii_rx.outs = rmii_rx.bytes
              /\ Len(rmii_rx.bytes) = Len(rmii_rx.frame.body) + 4
              /\ rmii_rx.u.rxbyte.data_valid = 0

(* a frame whose last two bytes came with crs_dv alternating is complete *)
C30_Witness ==
    /\ rmii_rx.phase = "gap" /\ rmii_rx.n = GapClocks /\ rmii_rx.tail = 2
    /\ rmii_rx.pre = 1 /\ rmii_rx.frame.body = Frame98
    /\ rmii_rx.outs = Frame98 \o Frame98FCS

----------------------------------------------------------------------------
(* C23: rx_ack is pulsed high only when the current packet has been        *)
(* processed: for every frame, the rx_ack pulse does not occur before the  *)
(* Ethernet layer has reported done for that frame.                        *)

(* rx_ack is high only once the pass of the frame is over *)
C23_AckAfterDone == rx_ack = 1 => (RxPass /\ ~obs.busy)

(* What the sequencer does: rx_ack is registered in IDLE on the way to     *)
(* PROCESS_RX and cleared there, so it is high in the first clock of the   *)
(* pass, when the Ethernet layer has not yet been started.                 *)
C23_AckAtTake ==
    rx_ack = 1 <=> (RxPass /\ obs.busy /\ obs.cyc = 1 /\ fsm = "PROCESS_RX"
                    /\ eth.st = IDLE /\ eth_run = 0)

----------------------------------------------------------------------------
(* C24: a new incoming frame cannot be accepted while the previous frame's *)
(* acknowledgement is pending: between the issue of a frame descriptor and *)
(* its rx_ack, the Frame Receiver neither writes bytes of a later frame    *)
(* into the packet buffer nor issues a further descriptor.                 *)

(* RMIIRx has no acknowledgement input (rx_ack goes to the FIFO of the MAC *)
(* only), so the run of the receiver is the same whether the descriptor it *)
(* issued has been acknowledged or not; here it is taken as pending.       *)
C24_Backpressure ==
    rmii_rx.issued >= 1 =>
        /\ RxWriteEn(rmii_rx.u) = 0
        /\ rmii_rx.issued = 1

----------------------------------------------------------------------------
(* C27: a fragmented IPv4 datagram (More-Fragments flag set or non-zero    *)
(* fragment offset) addressed to the engine is rejected: it never produces *)
(* an ICMP reply (no tx_start) and never delivers a UDP payload (no        *)
(* user_rx, no write to the user receive memory, Endpoint Cache unchanged). *)

(* flags and fragment offset of the IPv4 header: MF is bit 13, the offset  *)
(* the 13 bits below it                                                    *)
Fragmented(f) == U16(f, 20) % 16384 # 0

C27_FragmentRejected ==
    (RxPass /\ Fragmented(obs.req) /\ Field(obs.req, 30, 4) = ip4_addr) =>
        /\ obs.starts = 0 /\ ~tx_start
        /\ obs.urx = 0 /\ user_rx = 0
        /\ w_port.en = 0
        /\ user_last = obs.cache0

(* What the layer does: ID, flags, fragment offset and TTL are skipped     *)
(* unread, so a fragment is handled as the whole datagram would be.        *)
C27_FragmentHandled ==
    (RxDone /\ Fragmented(obs.req)) =>
        /\ IsEchoRequest(obs.req) => (obs.starts = 1 /\ obs.slen = U16(obs.req, 16) + 14)
        /\ IsUserUdp(obs.req) =>
              (obs.urx = 1 /\ user_last.ip4 = Field(obs.req, 26, 4))
        /\ (~IsEchoRequest(obs.req) /\ ~IsUserUdp(obs.req)) =>
              (obs.starts = 0 /\ obs.urx = 0)

----------------------------------------------------------------------------
(* C28: a runt frame is rejected downstream: a frame accepted by the       *)
(* receiver whose length rx_len is shorter than the headers the dispatcher *)
(* parses for its protocol (fewer than 42 bytes for an ARP request) never  *)
(* produces a reply (tx_start) or a user_rx, whatever bytes the packet     *)
(* buffer holds after the end of that frame.                               *)

(* rx_len of the frame taken: the bytes the receiver wrote for it *)
RuntTaken == RxPass /\ Len(obs.req) < 42

C28_RuntRejected ==
    RuntTaken => (obs.starts = 0 /\ ~tx_start /\ obs.urx = 0 /\ user_rx = 0)

(* What the dispatcher does: rx_len is not read, the layers parse the      *)
(* buffer from rx_offset on.  The runt is answered exactly when the bytes  *)
(* behind it complete an ARP request for the own address.                  *)
C28_RuntReadsOn ==
    (RuntTaken /\ ~obs.busy /\ rx_valid = 0) =>
        LET tpa == [i \in 1..4 |-> rx_mem[(rx_offset + 37 + i) % MemSize]]
        IN obs.starts = (IF tpa = ip4_addr THEN 1 ELSE 0)

----------------------------------------------------------------------------
(* C26: every layer's write-side activity is conditioned on that layer's   *)
(* checks having passed: no layer (Ethernet, ARP, IPv4, ICMP) asserts      *)
(* tx_en for any byte of a frame before all of that layer's checks on the  *)
(* frame have passed, so a frame that fails a check causes no write to the *)
(* TX memory.                                                              *)

(* the frame taken fails a check of the stack, or has no handler *)
FailsACheck ==
    RxPass /\ ~IsArpRequest(obs.req) /\ ~IsEchoRequest(obs.req) /\ ~IsUserUdp(obs.req)

(* the Ethernet layer, which holds no check of its own, left aside *)
C26_NoWriteOnFailure ==
    FailsACheck => (arp.tx_en = 0 /\ ipv4.tx_en = 0 /\ icmpv4.tx_en = 0)

(* What the layers do with a frame that fails a check: the fields ahead of *)
(* the failing one are copied to the TX memory as they stream in, and the  *)
(* pass ends without tx_start and with tx_offset where it was.             *)
C26_NoSendOnFailure ==
    FailsACheck =>
        /\ obs.starts = 0 /\ ~tx_start /\ tx_offset = obs.off0
        /\ tx_port_en = 1 => obs.busy

----------------------------------------------------------------------------
(* C22: every frame descriptor issued by the Frame Receiver is consumed    *)
(* exactly once and in arrival order: for each descriptor presented on     *)
(* rx_valid the sequencer pulses rx_ack for exactly one clock and runs the *)
(* Ethernet layer exactly once on that frame, no frame is processed twice, *)
(* and no two received frames are ever processed at the same time.         *)

(* Every descriptor handed over has been taken once, but for the one on    *)
(* offer; rx_ack is high in the first clock of the pass of the frame on    *)
(* offer and in no other; the Ethernet layer runs in a receive pass only,  *)
(* starts in the third clock of it, and reads the frame of the pass.       *)
SeqState ==
    /\ env.nframes = env.nrx + (IF rx_valid = 1 /\ rx_ack = 0 THEN 1 ELSE 0)
    /\ rx_ack = 1 <=> (RxPass /\ obs.busy /\ obs.cyc = 1)
    /\ rx_ack = 1 => (rx_valid = 1 /\ obs.req = env.frame)
    /\ (RxPass /\ obs.busy) <=> fsm = "PROCESS_RX"
    /\ eth.st # IDLE => (RxPass /\ obs.busy)
    /\ eth.st = 0 <=> (RxPass /\ obs.busy /\ obs.cyc = 3)
    /\ (eth.st \in 0..13 /\ eth.st < Len(obs.req)) => eth.rx_data = obs.req[eth.st + 1]

(* a descriptor is taken in IDLE only, with user_tx low, and rx_ack is     *)
(* raised by the take and by nothing else                                  *)
SeqTake == (rx_ack' = 1) <=> (fsm = "IDLE" /\ user_tx = 0 /\ rx_valid = 1)

----------------------------------------------------------------------------
(* C25: at any time at most one transmit frame is in flight, and the       *)
(* TX-memory byte range the dispatcher writes while building a frame never *)
(* overlaps the byte range of a frame that has been handed over with       *)
(* tx_start but has not yet been completely sent by the Frame Transmitter, *)
(* for any sequence of received frames and user_tx requests.               *)

(* The clocks the Frame Transmitter needs, from its start, to fetch the    *)
(* last byte of a frame of len bytes: preamble and SFD, then data and      *)
(* padding, four clocks a byte.  The RMII clock is no faster than the      *)
(* clock of the stack, and the FIFO between them adds to the delay.        *)
SendClocks(len) == 4 * (8 + TxPaddedLen(len))

(* a user frame is handed over only when the frame handed over before it  *)
(* has been sent: obs.cyc + 1 clocks lie between the two tx_start pulses   *)
(* when user_tx is raised in the clock after the first                     *)
C25_OneInFlight ==
    (tx_start /\ obs.kind = "user" /\ obs.chain > 0) =>
        obs.cyc + 1 >= SendClocks(obs.chain)

----------------------------------------------------------------------------
(* C38: tx_offset changes only at the end of a processing pass in which    *)
(* tx_start was asserted, and then it increases by exactly that frame's    *)
(* tx_len modulo the TX memory size, so consecutive transmitted frames     *)
(* occupy adjacent TX-memory regions; a pass that ends without tx_start    *)
(* (aborted or reply-less frame) leaves tx_offset unchanged.               *)

(* the step of the clock in which tx_start is high, and every other step *)
OffsetStep ==
    IF tx_start
    THEN /\ done(tx_source) /\ fsm' = "IDLE"
         /\ tx_offset' = (tx_offset + tx_len) % MemSize
    ELSE tx_offset' = tx_offset

(* the frame handed over last begins where the one before it ended, and a  *)
(* pass without tx_start has left tx_offset where it found it              *)
OffsetState ==
    (obs.kind # "none" /\ ~obs.busy) =>
        IF obs.starts = 0
        THEN tx_offset = obs.off0
        ELSE /\ obs.starts = 1 /\ obs.off1 = obs.off0
             /\ tx_offset = (obs.off0 + obs.slen) % MemSize

C38_TxOffset == [](OffsetState) /\ [][OffsetStep]_vars

(* a second reply, built where the first one ended *)
C38_Witness ==
    /\ fsm = "IDLE" /\ ~obs.busy /\ obs.starts = 1 /\ obs.slen = 42
    /\ obs.off0 = 42 /\ tx_offset = 20 /\ env.nframes = 2

----------------------------------------------------------------------------
(* C34: processing any received frame that is not a UDP datagram passing   *)
(* all UDP-path checks (EtherType 0x0800, VER_IHL 0x45, destination = own  *)
(* IPv4 address, protocol 17, destination port = user_udp_port, UDP length *)
(* = user_udp_len + 8) leaves the Endpoint Cache (user_last_mac,           *)
(* user_last_ip4, user_last_port) unchanged, performs no write to the user *)
(* receive memory and does not pulse user_rx; a user transmission also     *)
(* leaves the Endpoint Cache unchanged.                                    *)

C34_CacheKept ==
    /\ (RxPass /\ ~IsUserUdp(obs.req)) =>
          /\ user_last = obs.cache0
          /\ w_port.en = 0
          /\ obs.urx = 0 /\ user_rx = 0
    /\ obs.kind = "user" => (user_last = obs.cache0 /\ w_port.en = 0)

(* a datagram for another port has been dropped after the cache was set *)
C34_Witness ==
    /\ RxDone /\ IsIPv4ToUs(obs.req, 17) /\ ~IsUserUdp(obs.req)
    /\ obs.cache0.ip4 # Zeros(4) /\ user_last = obs.cache0

----------------------------------------------------------------------------
(* C37: when user_tx and rx_valid are both high while the sequencer is in  *)
(* IDLE, the user packet is built and sent first, rx_ack is not pulsed     *)
(* while it is being built, and the pending received frame is taken as     *)
(* soon as the sequencer is back in IDLE with user_tx low and rx_valid     *)
(* still high; neither the user request nor the pending frame is lost.     *)

(* the user pass taken with a frame waiting: the frame waits on,           *)
(* unacknowledged, and the pass ends with the user frame handed over; the  *)
(* receive pass that follows is the pass of the frame that waited          *)
ArbState ==
    /\ (obs.kind = "user" /\ obs.both) =>
          /\ rx_valid = 1 /\ rx_ack = 0
          /\ env.nframes = env.nrx + 1
          /\ IF obs.busy THEN fsm = "SEND_USER" /\ obs.starts = 0
             ELSE obs.starts = 1 /\ obs.slen = 42 + user_udp_len
    /\ (RxPass /\ obs.both /\ env.nframes = env.nrx) => obs.req = env.frame
    /\ fsm = "SEND_USER" => rx_ack = 0

(* user_tx goes first, and the frame is taken in the first IDLE clock      *)
(* with user_tx low                                                        *)
ArbStep ==
    /\ (fsm = "IDLE" /\ user_tx = 1 /\ rx_valid = 1) =>
          (fsm' = "SEND_USER" /\ rx_ack' = 0 /\ obs'.kind = "user" /\ obs'.both)
    /\ (fsm = "IDLE" /\ user_tx = 0 /\ rx_valid = 1) =>
          (fsm' = "PROCESS_RX" /\ rx_ack' = 1 /\ obs'.kind = "rx"
           /\ obs'.req = env.frame /\ rx_addr' = rx_offset)

C37_UserFirst == [](ArbState) /\ [][ArbStep]_vars

(* the frame that waited has been taken right after the user frame was     *)
(* handed over, and has been answered                                      *)
C37_Witness ==
    /\ RxDone /\ obs.both /\ obs.chain = 42 + user_udp_len
    /\ obs.starts = 1 /\ obs.slen = 42 /\ env.nutx = 1 /\ env.nrx = 1

----------------------------------------------------------------------------
(* C40: in every protocol layer send is asserted only in a clock in which  *)
(* done is asserted, done is asserted for exactly one clock per run, a     *)
(* parent layer asserts send only if its selected child asserted send (a   *)
(* leaf replies as its end_fsm says), the layer is in IDLE on the clock    *)
(* after done and has send_at_end and child_tx_len cleared when its next   *)
(* run starts; tx_start is high for at most one clock per pass.            *)

Layers == << eth, arp, ipv4, icmpv4, udp, udp_tx >>

Running(L) == L.st # IDLE /\ ~done(L)

HandshakeState ==
    /\ \A i \in 1..6 :
          LET L == Layers[i]
          IN /\ send(L) => done(L)
             /\ L.st = 0 => (L.send_at_end = 0 /\ L.child_tx_len = 0)
             /\ L.send_at_end = 0 => L.child_tx_len = 0
    /\ send(eth) => eth.send_at_end = 1
    /\ send(ipv4) => ipv4.send_at_end = 1
    /\ ~send(udp)
    /\ \A i \in {2, 4, 5, 6} : Layers[i].send_at_end = 0
    /\ obs.starts <= 1

HandshakeStep ==
    /\ \A i \in 1..6 :
          /\ done(Layers[i]) => Layers[i]'.st = IDLE
          /\ Running(Layers[i]) => Layers[i]'.st # IDLE
    /\ (eth.send_at_end = 0 /\ eth'.send_at_end = 1) =>
          /\ eth.st = EthSwitch
          /\ IF U16(eth.reg, 6) = 2054 THEN send(arp)
             ELSE U16(eth.reg, 6) = 2048 /\ send(ipv4)
    /\ (ipv4.send_at_end = 0 /\ ipv4'.send_at_end = 1) =>
          (ipv4.st = IPv4Switch /\ ipv4.reg[3] = 1 /\ send(icmpv4))
    /\ tx_start => ~tx_start'

C40_LayerHandshake == [](HandshakeState) /\ [][HandshakeStep]_vars

(* the Ethernet layer reports done and send for an echo request: its       *)
(* children are back in IDLE, the IPv4 layer with its flags cleared        *)
C40_Witness ==
    /\ fsm = "PROCESS_RX" /\ send(eth) /\ eth.send_at_end = 1
    /\ U16(eth.reg, 6) = 2048 /\ eth.child_tx_len = 30
    /\ ipv4.st = IDLE /\ ipv4.send_at_end = 0 /\ icmpv4.st = IDLE

----------------------------------------------------------------------------
(* C33: after any sequence of processed frames and user transmissions the  *)
(* checksum accumulator of the IPv4 layer, of the ICMP layer and of the    *)
(* UDP transmit layer is zero when the layer starts its next               *)
(* checksum-bearing region (state 0 of the IPv4 and ICMP layers, the first *)
(* of the states 15..32 of the UDP transmit layer).                        *)
C33_AccumulatorsClear ==
    /\ ipv4.st = 0 => ipv4_ck = 0
    /\ icmpv4.st = 0 => icmpv4_ck = 0
    /\ udp_tx.st = 15 => udp_tx_ck = 0

(* C33, the layers whose accumulator is clear at every start: the ICMP     *)
(* layer and the UDP transmit layer, up to the first summed state          *)
C33_IcmpAndUdpTxClear ==
    /\ icmpv4.st \in {IDLE, 0} => icmpv4_ck = 0
    /\ (udp_tx.st = IDLE \/ udp_tx.st \in 0..15) => udp_tx_ck = 0

----------------------------------------------------------------------------
(* C35: while a frame descriptor (rx_offset, rx_len) is processed, the     *)
(* bytes of RX memory the layers check, copy into a reply or deliver lie   *)
(* inside [rx_offset, rx_offset + rx_len) modulo the memory size.          *)

(* the ARP layer is in a state that checks or copies the byte in rx_data *)
ArpUses == Running(arp) /\ arp.st < 28 /\ ARPLayer[arp.st + 1].op # "skip"

(* state s of the ARP layer has byte 14 + s of the frame in rx_data; the   *)
(* Ethernet layer, up to its switch state, byte s                          *)
C35_ReadsInsideFrame ==
    (RxPass /\ obs.busy) =>
        /\ (Running(eth) /\ eth.st < EthSwitch) => eth.st < Len(obs.req)
        /\ ArpUses => 14 + arp.st < Len(obs.req)

(* What the dispatcher does: the byte a state of the ARP layer works on    *)
(* is the byte of the buffer at its position counted from rx_offset,       *)
(* whatever rx_len says.                                                   *)
C35_ReadsByPosition ==
    (RxPass /\ obs.busy /\ Running(arp) /\ arp.st < 28) =>
        arp.rx_data = rx_mem[(rx_offset + 14 + arp.st) % MemSize]

----------------------------------------------------------------------------
(* C36: asserting reset re-initialises the CRC engine in whatever state it *)
(* is (RESET, IDLE or BUSY): after a clock with reset high the CRC         *)
(* register is 0xFFFFFFFF within two clocks, that is, it is 0xFFFFFFFF     *)
(* after that clock or the engine is in RESET, which loads it in the next. *)
C36_ResetInAnyState ==
    crc32.after # "none" => (crc32.u.crc = Ones32 \/ crc32.u.st = "RESET")

(* What the engine does: reset is sampled in IDLE; in RESET the register   *)
(* is loaded anyway; in BUSY the byte is taken and the engine goes to IDLE *)
(* whatever reset is.                                                      *)
C36_ResetSampledInIdle ==
    /\ crc32.after = "IDLE" => crc32.u.st = "RESET"
    /\ crc32.after = "RESET" => (crc32.u.crc = Ones32 /\ crc32.u.st = "IDLE")
    /\ crc32.after = "BUSY" => crc32.u.st = "IDLE"

----------------------------------------------------------------------------
(* C39: every frame for which the dispatcher pulses tx_start is            *)
(* transmitted exactly once, with the offset and length issued and in      *)
(* issue order, also when tx_start is pulsed while the transmitter is busy *)
(* with earlier frames; no issued descriptor is dropped.                   *)

(* A descriptor issued is held by the transmitter, which latches one when  *)
(* it leaves IDLE and is ready for the next when it is back in IDLE, or by *)
(* the FIFO in front of it.  While the transmitter is busy with the first  *)
(* frame, the descriptors issued are no more than it and the FIFO hold.    *)
C39_NoDescriptorDropped ==
    (obs.sent >= 1 /\ obs.age < SendClocks(42 + user_udp_len)) =>
        obs.sent <= 1 + TxFifoDepth

(* What the dispatcher does: it is in IDLE, with user_ready high, in the   *)
(* clock after every tx_start, however many descriptors it has issued      *)
C39_ReadyAfterStart ==
    [][tx_start => (fsm' = "IDLE" /\ tx_offset' = (tx_offset + tx_len) % MemSize)]_vars

----------------------------------------------------------------------------
(* test_mdio_read and test_mdio_write: one action per kind of clock of the *)
(* bench.  The controller is built with the divider ClkDiv.                *)

MdioStep(bench) ==
    /\ mdio' = [bench EXCEPT !.u = MDIO(mdio.u, mdio.in, ClkDiv)]
    /\ UNCHANGED << stack, matcher, crc32, cksum, rmii_rx, rmii_tx, phy >>

(* what the bench does after a clock of the operation: at a rising edge of *)
(* mdc it samples the pins and, in a read, drives the next bit             *)
MdioSample(bench) ==
    LET U == MDIO(mdio.u, mdio.in, ClkDiv)
        n == Len(mdio.obits) + 1
    IN IF mdio_mdc(U) = 1 /\ mdio.last_mdc = 0
       THEN [bench EXCEPT
               !.last_mdc = 1,
               !.obits = Append(mdio.obits, mdio_o(U)),
               !.oebits = Append(mdio.oebits, mdio_oe(U)),
               !.in.i = IF mdio.op.rw = 0 /\ n \in 48..63
                        THEN MsbFirst(mdio.op.val, 16)[n - 47] ELSE mdio.in.i]
       ELSE [bench EXCEPT !.last_mdc = mdio_mdc(U)]

(* an idle clock, followed by another *)
MdioIdle ==
    /\ mdio.u.st = "IDLE" /\ mdio.in.start = 0
    /\ MdioStep(mdio)

(* an idle clock; the bench then sets up an operation and raises start *)
MdioSetUp ==
    /\ mdio.u.st = "IDLE" /\ mdio.in.start = 0 /\ mdio.ops < MaxOps
    /\ \E op \in MdioOps :
         MdioStep([mdio EXCEPT
                     !.in = MdioIn(op.pa, op.ra, op.rw,
                                   IF op.rw = 1 THEN op.val ELSE 0, 1, mdio.in.i),
                     !.op = op, !.ops = mdio.ops + 1, !.cyc = 0,
                     !.obits = <<>>, !.oebits = <<>>])

(* the clock with start; the bench then puts zeros on the inputs *)
MdioStart ==
    /\ mdio.u.st = "IDLE" /\ mdio.in.start = 1
    /\ MdioStep([mdio EXCEPT
                   !.in = MdioIn(0, 0, 0, 0, 0, mdio.in.i),
                   !.last_mdc = mdio_mdc(MDIO(mdio.u, mdio.in, ClkDiv))])

(* a clock of the operation *)
MdioRun ==
    /\ mdio.u.st # "IDLE"
    /\ MdioStep(MdioSample([mdio EXCEPT !.cyc = mdio.cyc + 1]))

NextMdio == MdioIdle \/ MdioSetUp \/ MdioStart \/ MdioRun

SpecMdio == InitUnits /\ [][NextMdio]_vars

----------------------------------------------------------------------------
(* C31: for every MDIO operation started by start while the controller is  *)
(* idle the controller drives, one bit per MDC clock and most significant  *)
(* bit first, 32 ones, the start bits 01, the opcode (10 read, 01 write),  *)
(* the PHY address and the register address; for a write then turnaround   *)
(* 10 and the 16 bits of write_data, output-enable high for all 64 bits;   *)
(* for a read it releases output-enable after the 46th bit, samples 16     *)
(* bits into read_data most significant first, and read_data equals the    *)
(* value the PHY drove; busy is high during the operation and low after.   *)

(* the bits of the frame the controller has to drive *)
MdioFrame(op) ==
    [k \in 1..32 |-> 1] \o <<0, 1>>
    \o (IF op.rw = 1 THEN <<0, 1>> ELSE <<1, 0>>)
    \o MsbFirst(op.pa, 5) \o MsbFirst(op.ra, 5)
    \o (IF op.rw = 1 THEN <<1, 0>> \o MsbFirst(op.val, 16) ELSE <<>>)

(* the start clock of an operation has passed *)
MdioStarted == mdio.ops >= 1 /\ mdio.in.start = 0

C31_MdioFrame ==
    MdioStarted =>
        LET exp == MdioFrame(mdio.op)
            n == Len(mdio.obits)
        IN /\ \A k \in 1..n :
                 IF k <= Len(exp)
                 THEN mdio.obits[k] = exp[k] /\ mdio.oebits[k] = 1
                 ELSE mdio.oebits[k] = (IF k <= 64 THEN 0 ELSE 1)
           /\ n < 64 => mdio_busy(mdio.u) = 1
           /\ mdio.u.st = "D16_R" =>
                 mdio.u.read_data \div (2 ^ mdio.u.bit_counter)
                     = mdio.op.val \div (2 ^ mdio.u.bit_counter)
           /\ mdio.u.st = "IDLE" =>
                 /\ n = (IF mdio.op.rw = 1 THEN 65 ELSE 64)
                 /\ mdio.op.rw = 0 => mdio.u.read_data = mdio.op.val
           /\ mdio_busy(mdio.u) = 1 => mdio.cyc <= 67 * ClkDiv

(* a second operation, a read, has ended *)
C31_Witness ==
    /\ MdioStarted /\ mdio.ops = 2 /\ mdio.u.st = "IDLE"
    /\ mdio.op = [rw |-> 0, pa |-> 21, ra |-> 1, val |-> 42405]
    /\ mdio.u.read_data = 42405 /\ Len(mdio.obits) = 64

----------------------------------------------------------------------------
(* test_phy_manager: one action per kind of clock of the bench             *)

PhyStep(next_reset) ==
    LET busy == mdio_busy(phy.m)
        M == MDIO(phy.m, PhyMdioIn(phy.pm, phy.i), phy_clk_div)
        rising == mdio_mdc(M) = 1 /\ phy.last_mdc = 0
        k == phy.clk + 1
    IN /\ \E v \in (IF phy.pm.st = "POLL_BSR" /\ busy = 0
                    THEN BsrValues ELSE {phy.val}) :
            phy' = [pm |-> PHYManager(phy.pm, phy.phy_reset, busy, phy.m.read_data),
                    m |-> M,
                    phy_reset |-> next_reset,
                    i |-> IF rising /\ k \in 48..63
                          THEN MsbFirst(phy.val, 16)[k - 47] ELSE phy.i,
                    last_mdc |-> mdio_mdc(M),
                    clk |-> IF M.st = "IDLE" THEN 0
                            ELSE IF rising THEN k ELSE phy.clk,
                    val |-> v,
                    last |-> IF /\ phy.pm.st = "POLL_BSR_WAIT"
                                /\ phy.phy_reset = 0 /\ busy = 0
                             THEN phy.val ELSE phy.last,
                    since |-> IF phy.phy_reset = 1 THEN 0
                              ELSE IF phy_rst(phy.pm) = 0 /\ phy.since < one_ms + 2
                              THEN phy.since + 1 ELSE phy.since,
                    resets |-> phy.resets + next_reset]
       /\ UNCHANGED << stack, matcher, crc32, cksum, rmii_rx, rmii_tx, mdio >>

(* a clock with phy_reset low, followed by another *)
PhyRun == phy.phy_reset = 0 /\ PhyStep(0)

(* a clock with phy_reset low; the bench then raises phy_reset *)
PhyRaise == phy.phy_reset = 0 /\ phy.resets < MaxResets /\ PhyStep(1)

(* the clock with phy_reset high *)
PhyPulse == phy.phy_reset = 1 /\ PhyStep(0)

NextPhy == PhyRun \/ PhyRaise \/ PhyPulse

SpecPhy == InitUnits /\ [][NextPhy]_vars

----------------------------------------------------------------------------
(* C32: after power-up, and again after phy_reset is asserted in any state *)
(* of the PHY manager, phy_rst is held low for at least one_ms consecutive *)
(* clocks before it is released; link_up is low until the first poll of    *)
(* the basic status register has completed, and afterwards is high exactly *)
(* when the last polled value has bit 2 set, bit 4 clear, bit 5 set and    *)
(* bit 14 set.                                                             *)

LinkOk(v) ==
    /\ (v \div 4) % 2 = 1 /\ (v \div 16) % 2 = 0
    /\ (v \div 32) % 2 = 1 /\ (v \div 16384) % 2 = 1

PhyState ==
    /\ phy_rst(phy.pm) = 1 => phy.since >= one_ms
    /\ link_up(phy.pm) = (IF phy.last # -1 /\ LinkOk(phy.last) THEN 1 ELSE 0)
    /\ phy.last # -1 => phy.pm.bsr = phy.last

(* a clock with phy_reset high is followed by a clock with phy_rst low, in *)
(* every state of the manager                                              *)
PhyResetStep == phy.phy_reset = 1 => (phy_rst(phy.pm') = 0 /\ phy'.since = 0)

=============================================================================
